---------------------------- MODULE Spec2Model ----------------------------
(***************************************************************************)
(* A model of the video-sharing REST backend: the token lifecycle and the  *)
(* three authentication gates (SpecAuth), the like toggles (SpecLike) and  *)
(* the upload-then-persist pipeline (SpecUpload).                          *)
(*                                                                         *)
(* Environment assumption of every specification: a persistence call      *)
(* answers, unless the action is about its failure (the create/save steps  *)
(* of the upload pipeline); remote deletes that are issued are carried     *)
(* out.                                                                    *)
(***************************************************************************)
EXTENDS Integers, FiniteSets, Sequences, TLC

\* ------------------------------------------------------------------ bounds
\* Accounts that exist in the initial state of every specification.
NumUsers == 2
\* The clock counts seconds 0..MaxTime (jsonwebtoken stamps iat in whole seconds).
MaxTime == 2
\* ACCESS_TOKEN_EXPIRY / REFRESH_TOKEN_EXPIRY come from the environment
\* (1d / 10d in the sample .env); scaled to the model's clock.
AccessTokenExpiry == 1
RefreshTokenExpiry == 2
\* Distinct <<account, second>> pairs for which tokens are signed in one run.
MaxIssues == 2
\* Connections that can have a like toggle in flight at once.
MaxReqs == 2
\* Like documents created in one run.
MaxLikes == 3
\* Toggles counted in one uninterrupted run on a pair.
MaxRun == 2
\* Files transferred to remote storage in one run.
MaxFiles == 3
\* Comment documents created in one run (the initial ones included).
MaxComments == 2
\* Playlist documents created in one run.
MaxPlaylists == 1
\* Subscription documents created in one run.
MaxSubs == 3
\* Accounts the collection holds in one run.
MaxAccounts == 3

Uids == 1..NumUsers
NoUser == 0

\* --------------------------------------------------------------- variables
VARIABLES
    users,      \* User collection: _id -> document
    now,        \* wall clock, in seconds
    pending,    \* the request a gate has passed on to its controller
    issued,     \* history: the <<uid, iat>> pairs for which tokens were signed
    superseded, \* history: the pairs whose refresh token had another issued after it
    revoked,    \* history: the pairs issued before the account's last logout,
                \*          dropped at its next login
    last,       \* what the last handler was seen to do
    videos,     \* Video collection: _id -> document
    comments,   \* Comment collection: _id -> document
    tweets,     \* Tweet collection: _id -> document
    likes,      \* Like collection: a set of documents
    nextLikeId, \* the _id the next Like document gets (ObjectIds are never reused)
    treq,       \* the toggle requests in flight, one per connection
    run,        \* history: the toggles applied to one pair with nothing interleaved
    up,         \* the upload-carrying request in flight
    remote,     \* remote storage: the ids of the files it holds
    nextFileId, \* the public_id the next transferred file gets
    scratch,    \* local scratch storage: the staged files of the request in flight
    unlinks,    \* history: how often each staged file was deleted from scratch
    playlists,  \* Playlist collection: _id -> document
    subscriptions, \* Subscription collection: a set of documents
    nextSubId,  \* the _id the next Subscription document gets
    sreq,       \* the subscription toggles in flight, one per connection
    areq,       \* the account and playlist requests in flight between two awaits, one per connection
    nextCommentId, \* the _id the next Comment document gets
    plain       \* history: the password each account's digest was last made from

tokenVars == <<now, pending, issued, superseded, revoked>>
authVars == <<users, now, pending, issued, superseded, revoked, last>>
contentVars == <<videos, comments, tweets, likes>>
likeVars == <<nextLikeId, treq, run>>
upVars == <<up, remote, nextFileId, scratch, unlinks>>
subVars == <<subscriptions, nextSubId, sreq>>
otherVars == <<playlists, subVars, areq, nextCommentId, plain>>

vars == <<authVars, contentVars, likeVars, upVars, otherVars>>

\* ------------------------------------------------------------------ tokens
\* A JWT is its payload and the secret that signed it.  key = "forged" is a
\* token signed with a key the server does not hold.  The access token's
\* payload also carries email, username and fullName (user.model.js 74-79);
\* no verifier reads them.
NoToken == [uid |-> NoUser, iat |-> 0, key |-> "none"]
Forged == [uid |-> 1, iat |-> 0, key |-> "forged"]

Expiry(key) == IF key = "access" THEN AccessTokenExpiry ELSE RefreshTokenExpiry

\* jwt.sign(payload, secret, {expiresIn}): iat = floor(Date.now()/1000),
\* exp = iat + expiresIn, HS256.  No jti, no nonce: the token is a function
\* of the account id and the second it is signed in.
generateAccessToken(uid) == [uid |-> uid, iat |-> now, key |-> "access"]

generateRefreshToken(uid) == [uid |-> uid, iat |-> now, key |-> "refresh"]

\* jwt.verify(token, secret): the signature must be the secret's, and the
\* token is expired once clockTimestamp >= exp.
JwtVerifyNoExpiry(tok, key) == tok.key = key
JwtVerify(tok, key) == tok.key = key /\ now < tok.iat + Expiry(key)

\* What a client can put in a request: nothing, a token the server issued
\* (either kind, for any account) or a forged one.
Presentable ==
    {NoToken, Forged}
        \cup {[uid |-> p[1], iat |-> p[2], key |-> k] : p \in issued, k \in {"access", "refresh"}}

\* The two carriers of the access token.  Requests carry one of them, or a
\* stale (forged) cookie next to a header token.
AccessReqs ==
    {[cookie |-> c, header |-> NoToken] : c \in Presentable}
        \cup {[cookie |-> NoToken, header |-> h] : h \in Presentable}
        \cup {[cookie |-> Forged, header |-> h] : h \in Presentable}

\* ---------------------------------------------------------------- accounts
Usernames == [u \in Uids |-> IF u = 1 THEN "alice" ELSE IF u = 2 THEN "bobby" ELSE "carol"]
Emails == [u \in Uids |-> IF u = 1 THEN "a@x.com" ELSE IF u = 2 THEN "b@x.com" ELSE "c@x.com"]
Passwords == {"secret1", "secret2"}

\* bcrypt.hash / bcrypt.compare: the digest is not the plaintext; bcrypt reads
\* the first 72 bytes of a password and no more, so compare holds for the
\* plaintexts that agree with the hashed one on those.
BcryptBytes == 72
Hash(p) == <<"bcrypt", IF Len(p) > BcryptBytes THEN SubSeq(p, 1, BcryptBytes) ELSE p>>
isPasswordCorrect(doc, p) == doc.password = Hash(p)

Exists(u) == u \in DOMAIN users

\* User.findOne({$or: [{username: x}, {email: x}]})
FindByUsernameOrEmail(x) ==
    {u \in DOMAIN users : users[u].username = x \/ users[u].email = x}

\* ----------------------------------------------------------------- content
\* An ObjectId is a positive number; NoId is a field that is not set (a
\* query that finds nothing answers it too).
NoId == 0
isValidObjectId(id) == id > NoId

\* A remote file is its public_id; NoFile is an empty url field.  The url
\* holds the public_id as its last path segment, which is how
\* extractPublicIdFromUrl reads it back.
NoFile == 0

EmptyCollection == [id \in {} |-> id]
Restrict(f, S) == [x \in S |-> f[x]]

\* cloudinary.uploader.destroy(publicId, {resource_type}): the file goes if
\* it is held under that resource type; otherwise the answer is "not found".
Destroy(held, publicIds, resourceType) ==
    Restrict(held, {f \in DOMAIN held : ~(f \in publicIds /\ held[f] = resourceType)})

deleteImageFromCloudinary(held, urls) == Destroy(held, urls \ {NoFile}, "image")
deleteVideoFromCloudinary(held, urls) == Destroy(held, urls \ {NoFile}, "video")

\* ------------------------------------------------- authentication middleware
\* req.cookies?.accessToken || req.header('Authorization')?.replace('Bearer ', '')
ReadAccessToken(req) == IF req.cookie # NoToken THEN req.cookie ELSE req.header

\* No token: null.  jwt.verify throws: caught, null.  Otherwise the account
\* User.findById finds, or null.
extractAndVerifyTokenNoLookup(req) ==
    LET token == ReadAccessToken(req)
    IN  IF token = NoToken THEN NoUser
        ELSE IF ~JwtVerify(token, "access") THEN NoUser
        ELSE token.uid
extractAndVerifyTokenLoggedIn(req) ==
    LET token == ReadAccessToken(req)
    IN  IF token = NoToken THEN NoUser
        ELSE IF ~JwtVerify(token, "access") THEN NoUser
        ELSE IF Exists(token.uid) /\ users[token.uid].refreshToken # NoToken
        THEN token.uid ELSE NoUser
extractAndVerifyToken(req) ==
    LET token == ReadAccessToken(req)
    IN  IF token = NoToken THEN NoUser
        ELSE IF ~JwtVerify(token, "access") THEN NoUser
        ELSE IF Exists(token.uid) THEN token.uid ELSE NoUser

\* The gates answer whether next() is called, the status sent when it is not,
\* and req.user.  A throw inside asyncHandler sends error.statusCode and never
\* reaches next().
requireAuth(req) ==
    LET user == extractAndVerifyToken(req)
    IN  IF user = NoUser
        THEN [next |-> FALSE, status |-> 401, user |-> NoUser]
        ELSE [next |-> TRUE, status |-> 0, user |-> user]

requireGuest(req) ==
    LET user == extractAndVerifyToken(req)
    IN  IF user # NoUser
        THEN [next |-> FALSE, status |-> 409, user |-> NoUser]
        ELSE [next |-> TRUE, status |-> 0, user |-> NoUser]

\* ------------------------------------------------ what a handler is seen to do
\* A valid access token, as the specification defines it: signed with the
\* access secret, not expired, naming an account that exists.
ValidAccessToken(tok) ==
    /\ tok.key = "access"
    /\ now < tok.iat + AccessTokenExpiry
    /\ tok.uid \in DOMAIN users

NoObs ==
    [handler |-> "none", route |-> "none", rejected |-> FALSE, status |-> 0,
     tokValid |-> FALSE, tokUid |-> NoUser,
     rtSuperseded |-> FALSE, rtRevoked |-> FALSE, newRT |-> NoToken,
     caller |-> NoUser, target |-> 0, shown |-> {},
     mode |-> "none", apiError |-> FALSE, message |-> "", stack |-> ""]

NoPending == [route |-> "none", user |-> NoUser]

AuthRoutes == {"logout", "get-current-user", "delete-account"}
GuestRoutes == {"login", "refresh"}

\* ------------------------------------------------------------- gate steps
\* A request enters its route's gate.  The observation is taken in the state
\* the request finds.  next() hands the request, with req.user, to the
\* controller; a rejection answers and ends it.
Gate(handler, route, req, g) ==
    /\ pending = NoPending
    /\ last' = [NoObs EXCEPT
                    !.handler = handler,
                    !.route = route,
                    !.rejected = ~g.next,
                    !.status = g.status,
                    !.tokValid = ValidAccessToken(ReadAccessToken(req)),
                    !.tokUid = ReadAccessToken(req).uid]
    /\ pending' = IF g.next THEN [route |-> route, user |-> g.user] ELSE NoPending
    /\ UNCHANGED <<users, now, issued, superseded, revoked>>
    /\ UNCHANGED <<contentVars, likeVars, otherVars, upVars>>

RequireAuthStep ==
    \E route \in AuthRoutes, req \in AccessReqs :
        Gate("requireAuth", route, req, requireAuth(req))

RequireGuestStep ==
    \E route \in GuestRoutes, req \in AccessReqs :
        Gate("requireGuest", route, req, requireGuest(req))

\* The controller of `route` answers `status`.
Answer(route, status) == [NoObs EXCEPT !.handler = route, !.route = route, !.status = status]

\* ------------------------------------------------------------ token issuing
\* generateAccessTokenAndRefreshToken(user): sign both tokens, store the
\* refresh token on the account (user.refreshToken = ...; user.save()).
StoreRefreshToken(u, rt) == [users EXCEPT ![u].refreshToken = rt]

IssuedTo(u) == {p \in issued : p[1] = u}

\* History kept beside it: which tokens exist, and which refresh tokens have
\* had another one issued after them (the clock never runs back, so the one
\* issued last carries the greatest iat).
NoteIssued(u) ==
    /\ issued' = issued \cup {<<u, now>>}
    /\ superseded' = superseded \cup {p \in IssuedTo(u) : \A q \in IssuedTo(u) : q[2] <= p[2]}

CanIssue(u) == <<u, now>> \in issued \/ Cardinality(issued) < MaxIssues

\* The refresh token as the controller reads it:
\* req.cookies?.refreshToken || req.body?.refreshToken
RefreshReqs ==
    {[cookie |-> c, body |-> NoToken] : c \in Presentable}
        \cup {[cookie |-> NoToken, body |-> b] : b \in Presentable}
        \cup {[cookie |-> Forged, body |-> b] : b \in Presentable}

ReadRefreshToken(rreq) == IF rreq.cookie # NoToken THEN rreq.cookie ELSE rreq.body

\* -------------------------------------------------------------- controllers
LoginNames == {""} \cup {Usernames[u] : u \in Uids} \cup {Emails[u] : u \in Uids} \cup {"nobody"}

\* userLogin: 400 on an empty field, 401 on an unknown name or a wrong
\* password, otherwise tokens are issued and the refresh token stored.
userLogin(usernameEmail, password) ==
    LET found == FindByUsernameOrEmail(usernameEmail)
    IN  /\ pending.route = "login"
        /\ pending' = NoPending
        /\ UNCHANGED <<now, contentVars, likeVars, otherVars, upVars>>
        /\ IF usernameEmail = "" \/ password = ""
           THEN /\ last' = Answer("login", 400)
                /\ UNCHANGED <<users, issued, superseded, revoked>>
           ELSE IF found = {}
           THEN /\ last' = Answer("login", 401)
                /\ UNCHANGED <<users, issued, superseded, revoked>>
           ELSE \E u \in found :
               IF ~isPasswordCorrect(users[u], password)
               THEN /\ last' = Answer("login", 401)
                    /\ UNCHANGED <<users, issued, superseded, revoked>>
               ELSE /\ CanIssue(u)
                    /\ users' = StoreRefreshToken(u, generateRefreshToken(u))
                    /\ NoteIssued(u)
                    /\ revoked' = revoked \ IssuedTo(u)
                    /\ last' = [Answer("login", 200) EXCEPT !.newRT = generateRefreshToken(u)]

\* userLogout: $unset refreshToken on req.user.
userLogoutKeepsToken(u) == users
userLogoutUnset(u) == [users EXCEPT ![u].refreshToken = NoToken]

userLogout ==
    /\ pending.route = "logout"
    /\ pending' = NoPending
    /\ users' = userLogoutUnset(pending.user)
    /\ revoked' = revoked \cup IssuedTo(pending.user)
    /\ last' = Answer("logout", 200)
    /\ UNCHANGED <<now, issued, superseded, contentVars, likeVars, otherVars, upVars>>

\* refreshAccessToken.  The account whose stored token the presented one
\* equals, or NoUser: a missing token, jwt.verify throwing, no such account,
\* no stored token or a different stored token all answer 401.
RefreshSubjectNoStoredCheck(incoming) ==
    IF incoming = NoToken THEN NoUser
    ELSE IF ~JwtVerify(incoming, "refresh") THEN NoUser
    ELSE IF ~Exists(incoming.uid) THEN NoUser
    ELSE incoming.uid
RefreshSubject(incoming) ==
    IF incoming = NoToken THEN NoUser
    ELSE IF ~JwtVerify(incoming, "refresh") THEN NoUser
    ELSE IF ~Exists(incoming.uid) THEN NoUser
    ELSE IF users[incoming.uid].refreshToken = NoToken THEN NoUser
    ELSE IF users[incoming.uid].refreshToken # incoming THEN NoUser
    ELSE incoming.uid

refreshAccessToken(rreq) ==
    LET incoming == ReadRefreshToken(rreq)
        u == RefreshSubject(incoming)
        seen == [Answer("refresh", 401) EXCEPT
                    !.rtSuperseded = <<incoming.uid, incoming.iat>> \in superseded
                                        /\ incoming.key = "refresh",
                    !.rtRevoked = <<incoming.uid, incoming.iat>> \in revoked
                                        /\ incoming.key = "refresh"]
    IN  /\ pending.route = "refresh"
        /\ pending' = NoPending
        /\ UNCHANGED <<now, contentVars, likeVars, otherVars, upVars>>
        /\ IF u = NoUser
           THEN /\ last' = seen
                /\ UNCHANGED <<users, issued, superseded, revoked>>
           ELSE /\ CanIssue(u)
                /\ users' = StoreRefreshToken(u, generateRefreshToken(u))
                /\ NoteIssued(u)
                /\ last' = [seen EXCEPT !.status = 200, !.newRT = generateRefreshToken(u)]
                /\ UNCHANGED revoked

\* getCurrentUser: 200 with the account's document.
getCurrentUser ==
    /\ pending.route = "get-current-user"
    /\ pending' = NoPending
    /\ last' = Answer("get-current-user", 200)
    /\ UNCHANGED <<users, now, issued, superseded, revoked, contentVars, likeVars, otherVars, upVars>>

\* deleteUserAccount: 400 without a password, 401 with a wrong one; otherwise
\* the account's remote files, the records that hang on it and the account
\* itself are deleted.  Every
\* remote delete goes through deleteImageFromCloudinary.
deleteUserAccount(password) ==
    LET userId == pending.user
        userVideos == {v \in DOMAIN videos : videos[v].owner = userId}
        userComments == {c \in DOMAIN comments : comments[c].owner = userId}
        userTweets == {t \in DOMAIN tweets : tweets[t].owner = userId}
        urls == {videos[v].videoFile : v \in userVideos}
                    \cup {videos[v].thumbnail : v \in userVideos}
                    \cup {users[userId].avatar, users[userId].coverImage}
    IN  /\ pending.route = "delete-account"
        /\ pending' = NoPending
        /\ UNCHANGED <<now, issued, superseded, revoked, likeVars, nextSubId, sreq, areq, nextCommentId>>
        /\ UNCHANGED <<up, nextFileId, scratch, unlinks>>
        /\ IF password = ""
           THEN /\ last' = Answer("delete-account", 400)
                /\ UNCHANGED <<users, contentVars, remote, playlists, subscriptions, plain>>
           ELSE IF ~isPasswordCorrect(users[userId], password)
           THEN /\ last' = Answer("delete-account", 401)
                /\ UNCHANGED <<users, contentVars, remote, playlists, subscriptions, plain>>
           ELSE /\ remote' = deleteImageFromCloudinary(remote, urls)
                /\ likes' = {l \in likes :
                                /\ l.video \notin userVideos
                                /\ l.comment \notin userComments
                                /\ l.tweet \notin userTweets
                                /\ l.likedBy # userId}
                /\ comments' = Restrict(comments,
                                    {c \in DOMAIN comments :
                                        /\ comments[c].video \notin userVideos
                                        /\ comments[c].owner # userId})
                /\ tweets' = Restrict(tweets, DOMAIN tweets \ userTweets)
                /\ playlists' = Restrict(playlists,
                                     {p \in DOMAIN playlists : playlists[p].owner # userId})
                /\ subscriptions' = {s \in subscriptions :
                                        s.subscriber # userId /\ s.channel # userId}
                /\ videos' = Restrict(videos, DOMAIN videos \ userVideos)
                /\ users' = Restrict(users, DOMAIN users \ {userId})
                /\ plain' = Restrict(plain, DOMAIN users \ {userId})
                /\ last' = Answer("delete-account", 200)

\* A second passes (between requests).
Tick ==
    /\ pending = NoPending
    /\ now < MaxTime
    /\ now' = now + 1
    /\ UNCHANGED <<users, pending, issued, superseded, revoked, last>>
    /\ UNCHANGED <<contentVars, likeVars, otherVars, upVars>>

\* ------------------------------------------------------------- like toggles
\* The like routes sit behind requireAuth (likeRouter.use): every toggle runs
\* with req.user an existing account.  A toggle awaits three times (the
\* target's findById, Like.findOne, then Like.deleteOne or Like.create);
\* other requests run between the awaits.
Conns == 1..MaxReqs

Idle ==
    [pc |-> "idle", handler |-> "none", field |-> "none", target |-> NoId,
     likedBy |-> NoUser, existingLike |-> NoId, solo |-> FALSE]

NoRun == [field |-> "none", target |-> NoId, likedBy |-> NoUser, base |-> FALSE, count |-> 0]

\* Like.find({likedBy, [field]: target})
LikesOf(field, target, likedBy) ==
    {l \in likes : l.likedBy = likedBy /\ l[field] = target}

Liked(field, target, likedBy) == LikesOf(field, target, likedBy) # {}

InFlight == {c \in Conns : treq[c].pc # "idle"}

InFlightOn(field, target, likedBy) ==
    {c \in InFlight :
        treq[c].field = field /\ treq[c].target = target /\ treq[c].likedBy = likedBy}

RunIsOn(field, target, likedBy) ==
    run.field = field /\ run.target = target /\ run.likedBy = likedBy

\* The ids a client can put in the path: a malformed one, the existing ones
\* and a well-formed one that names nothing.
PresentedIds(collection) ==
    {NoId} \cup DOMAIN collection \cup {Cardinality(DOMAIN collection) + 1}

\* The handler throws before it reads the Like collection.
Reject(handler, status) ==
    /\ last' = Answer(handler, status)
    /\ UNCHANGED <<treq, run>>

\* The target was found: the request goes on to Like.findOne (connections are
\* interchangeable: a new request takes the lowest free one).  History: a
\* request that meets another one of its own pair in flight is interleaved
\* with it; otherwise it continues the pair's run or starts one from the
\* liked state it finds.
Accept(c, handler, field, target, likedBy) ==
    LET others == InFlightOn(field, target, likedBy)
    IN  /\ nextLikeId + Cardinality(InFlight) <= MaxLikes
        /\ \A d \in Conns \ InFlight : c <= d
        /\ treq' = [d \in Conns |->
                        IF d = c
                        THEN [pc |-> "findOne", handler |-> handler, field |-> field,
                              target |-> target, likedBy |-> likedBy,
                              existingLike |-> NoId, solo |-> others = {}]
                        ELSE IF d \in others THEN [treq[d] EXCEPT !.solo = FALSE]
                        ELSE treq[d]]
        /\ run' = IF others # {}
                  THEN (IF RunIsOn(field, target, likedBy) THEN NoRun ELSE run)
                  ELSE IF RunIsOn(field, target, likedBy) /\ run.count < MaxRun
                  THEN run
                  ELSE [field |-> field, target |-> target, likedBy |-> likedBy,
                        base |-> Liked(field, target, likedBy), count |-> 0]
        /\ last' = last

\* toggleVideoLike up to its first await's answer: 400 on a malformed id, 404
\* when Video.findById finds nothing, 403 on an unpublished video.
toggleVideoLike(c, likedBy, videoId) ==
    /\ treq[c].pc = "idle"
    /\ IF ~isValidObjectId(videoId) THEN Reject("toggleVideoLike", 400)
       ELSE IF videoId \notin DOMAIN videos THEN Reject("toggleVideoLike", 404)
       ELSE IF videos[videoId].isPublished = FALSE THEN Reject("toggleVideoLike", 403)
       ELSE Accept(c, "toggleVideoLike", "video", videoId, likedBy)
    /\ UNCHANGED <<users, tokenVars, contentVars, nextLikeId, upVars, otherVars>>

\* toggleCommentLike: 400, or 404 when Comment.findById finds nothing.
toggleCommentLike(c, likedBy, commentId) ==
    /\ treq[c].pc = "idle"
    /\ IF ~isValidObjectId(commentId) THEN Reject("toggleCommentLike", 400)
       ELSE IF commentId \notin DOMAIN comments THEN Reject("toggleCommentLike", 404)
       ELSE Accept(c, "toggleCommentLike", "comment", commentId, likedBy)
    /\ UNCHANGED <<users, tokenVars, contentVars, nextLikeId, upVars, otherVars>>

\* toggleTweetLike: 400, or 404 when Tweet.findById finds nothing.
toggleTweetLike(c, likedBy, tweetId) ==
    /\ treq[c].pc = "idle"
    /\ IF ~isValidObjectId(tweetId) THEN Reject("toggleTweetLike", 400)
       ELSE IF tweetId \notin DOMAIN tweets THEN Reject("toggleTweetLike", 404)
       ELSE Accept(c, "toggleTweetLike", "tweet", tweetId, likedBy)
    /\ UNCHANGED <<users, tokenVars, contentVars, nextLikeId, upVars, otherVars>>

\* existingLike = await Like.findOne({likedBy, [field]: target}): the first
\* match in insertion order, or null.
LikeFindOne(c) ==
    LET r == treq[c]
        found == LikesOf(r.field, r.target, r.likedBy)
        first == CHOOSE l \in found : \A m \in found : l.id <= m.id
    IN  /\ r.pc = "findOne"
        /\ treq' = [treq EXCEPT ![c].pc = "write",
                                ![c].existingLike = IF found = {} THEN NoId ELSE first.id]
        /\ UNCHANGED <<users, tokenVars, last, contentVars, nextLikeId, run, upVars, otherVars>>

\* Like.create({likedBy, [field]: target})
NewLike(r) ==
    [id |-> nextLikeId, likedBy |-> r.likedBy,
     video |-> IF r.field = "video" THEN r.target ELSE NoId,
     comment |-> IF r.field = "comment" THEN r.target ELSE NoId,
     tweet |-> IF r.field = "tweet" THEN r.target ELSE NoId]

\* The rest of the handler: Like.deleteOne({_id: existingLike._id}) and 200,
\* or Like.create and 201.
LikeWrite(c) ==
    LET r == treq[c]
    IN  /\ r.pc = "write"
        /\ IF r.existingLike # NoId
           THEN /\ likes' = {l \in likes : l.id # r.existingLike}
                /\ UNCHANGED nextLikeId
                /\ last' = Answer(r.handler, 200)
           ELSE /\ likes' = likes \cup {NewLike(r)}
                /\ nextLikeId' = nextLikeId + 1
                /\ last' = Answer(r.handler, 201)
        /\ treq' = [treq EXCEPT ![c] = Idle]
        /\ run' = IF r.solo /\ RunIsOn(r.field, r.target, r.likedBy)
                  THEN [run EXCEPT !.count = @ + 1]
                  ELSE run
        /\ UNCHANGED <<users, tokenVars, videos, comments, tweets, upVars, otherVars>>

\* togglePublishStatus: 400 on a malformed id, 404 unless the caller owns the
\* video, otherwise isPublished is flipped and saved.
togglePublishStatus(userId, videoId) ==
    /\ IF ~isValidObjectId(videoId)
       THEN last' = Answer("togglePublishStatus", 400) /\ UNCHANGED videos
       ELSE IF videoId \notin DOMAIN videos \/ videos[videoId].owner # userId
       THEN last' = Answer("togglePublishStatus", 404) /\ UNCHANGED videos
       ELSE /\ videos' = [videos EXCEPT ![videoId].isPublished = ~@]
            /\ last' = Answer("togglePublishStatus", 200)
    /\ UNCHANGED <<users, tokenVars, comments, tweets, likes, likeVars, otherVars, upVars>>

\* ---------------------------------------------------------- upload pipeline
\* An upload-carrying route runs: the gate, the multipart parser (the files
\* are staged in scratch storage), autoCleanupTemp, on POST /videos
\* validateFieldSpecificSizes, then the controller.  The parser, the cleanup
\* and the size validation are modelled from the specification's upload
\* pipeline (stage, filter, always-run cleanup).

\* FILE_SIZE_LIMITS, in bytes.
FILE_SIZE_LIMITS_5MB == [IMAGE |-> 5 * 1024 * 1024, VIDEO |-> 100 * 1024 * 1024]
FILE_SIZE_LIMITS == [IMAGE |-> 2 * 1024 * 1024, VIDEO |-> 100 * 1024 * 1024]

\* The declared kinds of the filter.
ImageTypes == {"image/jpeg", "image/png", "image/gif", "image/webp"}
VideoTypes == {"video/mp4", "video/x-msvideo", "video/x-matroska", "video/quicktime", "video/x-ms-wmv"}

FieldKind(field) == IF field = "videoFile" THEN "video" ELSE "image"

\* The filter of one staged file: declared MIME type and size of its field's kind.
PassesFilter(field, file) ==
    IF FieldKind(field) = "video"
    THEN file.mimetype \in VideoTypes /\ file.size <= FILE_SIZE_LIMITS.VIDEO
    ELSE file.mimetype \in ImageTypes /\ file.size <= FILE_SIZE_LIMITS.IMAGE

\* What clients send: files at and just over each limit the code knows, of a
\* type the controller takes, of one only the filter takes, and of one
\* nothing takes.
ImageFiles ==
    {[size |-> s, mimetype |-> "image/png"] :
        s \in {2 * 1024 * 1024, 2 * 1024 * 1024 + 1, 5 * 1024 * 1024 + 1}}
        \cup {[size |-> 2 * 1024 * 1024, mimetype |-> "image/gif"]}

VideoFiles ==
    {[size |-> s, mimetype |-> "video/mp4"] : s \in {100 * 1024 * 1024, 100 * 1024 * 1024 + 1}}
        \cup {[size |-> 100 * 1024 * 1024, mimetype |-> m] : m \in {"video/x-msvideo", "image/png"}}

FilesOfKind(field) == IF FieldKind(field) = "video" THEN VideoFiles ELSE ImageFiles

\* req.files / req.file: the fields that came with a file.
FileSets(fields) ==
    UNION {{f \in [S -> ImageFiles \cup VideoFiles] : \A x \in S : f[x] \in FilesOfKind(x)} :
            S \in SUBSET fields}

Body(username, email, password, title, description, videoId) ==
    [username |-> username, email |-> email, password |-> password,
     title |-> title, description |-> description, videoId |-> videoId]

NoBody == Body("", "", "", "", "", NoId)

IdleUp ==
    [pc |-> "idle", op |-> "none", user |-> NoUser, body |-> NoBody,
     files |-> EmptyCollection, staged |-> {}, cleaned |-> FALSE, signals |-> {},
     status |-> 0, uploads |-> {}, transferred |-> {}, destroyed |-> {},
     persist |-> "none", created |-> NoId]

\* ------------------------------------------------------- always-run cleanup
\* The finalizer autoCleanupTemp attaches to the request: the first completion
\* signal deletes every staged file of the request; a later one finds the
\* work done.  Answers the request's flag, scratch storage and the deletion
\* counts after the signal.
autoCleanupTempEverySignal(r, sc, ul) ==
    [cleaned |-> TRUE, scratch |-> sc \ r.staged,
     unlinks |-> [f \in DOMAIN ul |-> IF f \in r.staged THEN ul[f] + 1 ELSE ul[f]]]
autoCleanupTemp(r, sc, ul) ==
    IF r.cleaned
    THEN [cleaned |-> TRUE, scratch |-> sc, unlinks |-> ul]
    ELSE [cleaned |-> TRUE, scratch |-> sc \ r.staged,
          unlinks |-> [f \in DOMAIN ul |-> IF f \in r.staged THEN ul[f] + 1 ELSE ul[f]]]

\* A completion signal reaches the request r (r as it is after the step that
\* raises the signal), with scratch storage and the counts as the step finds
\* them.
Signal(r, name, sc, ul) ==
    LET c == autoCleanupTemp(r, sc, ul)
    IN  /\ up' = [r EXCEPT !.cleaned = c.cleaned, !.signals = @ \cup {name}]
        /\ scratch' = c.scratch
        /\ unlinks' = c.unlinks

\* ------------------------------------------------------------ remote storage
\* cloudinary.uploader.upload(path, {resource_type: 'auto'})
ResourceType(file) == IF file.mimetype \in VideoTypes THEN "video" ELSE "image"

Put(held, id, resourceType) ==
    IF id = NoFile THEN held
    ELSE [x \in DOMAIN held \cup {id} |-> IF x = id THEN resourceType ELSE held[x]]

\* uploadOnCloudinary(path): null when the file is not in scratch storage any
\* more (the remote call is not made) or when the remote call fails.
Sent(r, field) == field \in DOMAIN r.files /\ field \in scratch
Uploaded(r, field, ok) == Sent(r, field) /\ ok[field]

\* A collection's next _id (the collections of this specification only grow).
NewId(collection) == Cardinality(DOMAIN collection) + 1

\* What a controller leaves behind: its answer, the collections and remote
\* storage after it, and the record of what it did remotely.
Outcome(status) ==
    [status |-> status, users |-> users, videos |-> videos, remote |-> remote,
     nextFileId |-> nextFileId, uploads |-> {}, transferred |-> {}, destroyed |-> {},
     persist |-> "none", created |-> NoId]

\* -------------------------------------------------------- upload controllers
\* Each controller is what it leaves behind for a request r, given which
\* remote uploads succeed (ok) and whether the create/save call succeeds
\* (persistOk).  Error texts, fullName, duration and the lengths of title and
\* description are not modelled.
FileType(r, field) ==
    IF field \in DOMAIN r.files THEN ResourceType(r.files[field]) ELSE "image"

\* The ids the uploads of a request get, in the order it makes them.
FirstFile(r, field, ok) == IF Uploaded(r, field, ok) THEN nextFileId ELSE NoFile
SecondFile(r, field, ok, first) ==
    IF ~Uploaded(r, field, ok) THEN NoFile
    ELSE IF first = NoFile THEN nextFileId
    ELSE nextFileId + 1

\* The controller made these uploads and then answers `status`.
After(status, sent, files, held) ==
    [Outcome(status) EXCEPT
        !.uploads = sent,
        !.transferred = files \ {NoFile},
        !.nextFileId = nextFileId + Cardinality(files \ {NoFile}),
        !.remote = held]

\* publishAVideo's catch around Video.create: Promise.allSettled of the two
\* deletes, then ApiError(500).
publishAVideoCatchVideoOnly(held, videoFile, thumbnail) ==
    [remote |-> deleteVideoFromCloudinary(held, {videoFile}), destroyed |-> {videoFile}]
publishAVideoCatch(held, videoFile, thumbnail) ==
    [remote |-> deleteImageFromCloudinary(deleteVideoFromCloudinary(held, {videoFile}), {thumbnail}),
     destroyed |-> {videoFile, thumbnail}]

publishAVideo(r, ok, persistOk) ==
    LET b == r.body
        f == r.files
        videoFile == FirstFile(r, "videoFile", ok)
        thumbnail == SecondFile(r, "thumbnail", ok, videoFile)
        sent == {x \in {"videoFile", "thumbnail"} : Sent(r, x)}
        held == Put(Put(remote, videoFile, FileType(r, "videoFile")),
                    thumbnail, FileType(r, "thumbnail"))
        did == After(500, sent, {videoFile, thumbnail}, held)
        catch == publishAVideoCatch(held, videoFile, thumbnail)
    IN  IF b.title = "" \/ b.description = "" THEN Outcome(400)
        ELSE IF ~({"videoFile", "thumbnail"} \subseteq DOMAIN f) THEN Outcome(400)
        ELSE IF f["videoFile"].mimetype # "video/mp4" THEN Outcome(400)
        ELSE IF f["videoFile"].size > 100 * 1024 * 1024 THEN Outcome(400)
        ELSE IF f["thumbnail"].mimetype \notin {"image/jpeg", "image/png", "image/jpg"}
        THEN Outcome(400)
        ELSE IF f["thumbnail"].size > 5 * 1024 * 1024 THEN Outcome(400)
        ELSE IF videoFile = NoFile \/ thumbnail = NoFile
        THEN [did EXCEPT
                !.remote = deleteImageFromCloudinary(
                               deleteVideoFromCloudinary(held, {videoFile}), {thumbnail}),
                !.destroyed = {videoFile, thumbnail} \ {NoFile}]
        ELSE IF ~persistOk
        THEN [did EXCEPT
                !.remote = catch.remote, !.destroyed = catch.destroyed, !.persist = "failed"]
        ELSE [did EXCEPT
                !.status = 201,
                !.videos = Put(videos, NewId(videos),
                               [owner |-> r.user, isPublished |-> FALSE,
                                videoFile |-> videoFile, thumbnail |-> thumbnail,
                                views |-> 0]),
                !.persist = "ok",
                !.created = NewId(videos)]

\* userRegister.  emailRegex and usernameRegex fail on the malformed samples;
\* the schema's minlength 5 on username is checked by User.create only.
MalformedEmails == {"nope"}
MalformedUsernames == {"b-b"}

userRegister(r, ok, persistOk) ==
    LET b == r.body
        f == r.files
        avatar == FirstFile(r, "avatar", ok)
        coverImage == SecondFile(r, "coverImage", ok, avatar)
        heldA == Put(remote, avatar, FileType(r, "avatar"))
        held == Put(heldA, coverImage, FileType(r, "coverImage"))
        taken == {u \in DOMAIN users :
                    users[u].username = b.username \/ users[u].email = b.email}
    IN  IF b.username = "" \/ b.email = "" \/ b.password = "" THEN Outcome(400)
        ELSE IF b.email \in MalformedEmails THEN Outcome(400)
        ELSE IF b.username \in MalformedUsernames THEN Outcome(400)
        ELSE IF Len(b.password) < 6 THEN Outcome(400)
        ELSE IF taken # {} THEN Outcome(409)
        ELSE IF "avatar" \in DOMAIN f /\ avatar = NoFile
        THEN After(500, {x \in {"avatar"} : Sent(r, x)}, {}, remote)
        ELSE IF "coverImage" \in DOMAIN f /\ coverImage = NoFile
        THEN [After(500, {x \in {"avatar", "coverImage"} : Sent(r, x)}, {avatar},
                    deleteImageFromCloudinary(heldA, {avatar}))
                EXCEPT !.destroyed = {avatar} \ {NoFile}]
        ELSE IF Len(b.username) < 5 \/ ~persistOk
        THEN [After(500, DOMAIN f, {avatar, coverImage}, held) EXCEPT !.persist = "failed"]
        ELSE [After(201, DOMAIN f, {avatar, coverImage}, held) EXCEPT
                !.users = Put(users, NewId(users),
                              [username |-> b.username, email |-> b.email,
                               password |-> Hash(b.password), refreshToken |-> NoToken,
                               avatar |-> avatar, coverImage |-> coverImage]),
                !.persist = "ok",
                !.created = NewId(users)]

\* updateUserAvatar and updateUserCoverImage: upload, set the field on
\* req.user, save, then delete the old file.
updateUserImage(r, field, ok, persistOk) ==
    LET new == FirstFile(r, field, ok)
        held == Put(remote, new, FileType(r, field))
        old == users[r.user][field]
    IN  IF field \notin DOMAIN r.files THEN Outcome(400)
        ELSE IF new = NoFile THEN After(500, {x \in {field} : Sent(r, x)}, {}, remote)
        ELSE IF ~persistOk
        THEN [After(500, {field}, {new}, held) EXCEPT !.persist = "failed"]
        ELSE [After(200, {field}, {new}, deleteImageFromCloudinary(held, {old})) EXCEPT
                !.users = [users EXCEPT ![r.user][field] = new],
                !.destroyed = {old} \ {NoFile},
                !.persist = "ok"]

updateUserAvatar(r, ok, persistOk) == updateUserImage(r, "avatar", ok, persistOk)

updateUserCoverImage(r, ok, persistOk) == updateUserImage(r, "coverImage", ok, persistOk)

\* updateVideo: 400, 404 unless the caller owns the video, then the new
\* thumbnail (when one is sent) is uploaded, the video saved and the old
\* thumbnail deleted.
updateVideo(r, ok, persistOk) ==
    LET b == r.body
        videoId == b.videoId
        new == FirstFile(r, "thumbnail", ok)
        held == Put(remote, new, FileType(r, "thumbnail"))
        old == videos[videoId].thumbnail
    IN  IF ~isValidObjectId(videoId) THEN Outcome(400)
        ELSE IF "thumbnail" \notin DOMAIN r.files /\ b.title = "" /\ b.description = ""
        THEN Outcome(400)
        ELSE IF videoId \notin DOMAIN videos THEN Outcome(404)
        ELSE IF videos[videoId].owner # r.user THEN Outcome(404)
        ELSE IF "thumbnail" \notin DOMAIN r.files
        THEN [Outcome(IF persistOk THEN 200 ELSE 500) EXCEPT
                !.persist = IF persistOk THEN "ok" ELSE "failed"]
        ELSE IF new = NoFile
        THEN After(500, {x \in {"thumbnail"} : Sent(r, x)}, {}, remote)
        ELSE IF ~persistOk
        THEN [After(500, {"thumbnail"}, {new}, held) EXCEPT !.persist = "failed"]
        ELSE [After(200, {"thumbnail"}, {new}, deleteImageFromCloudinary(held, {old})) EXCEPT
                !.videos = [videos EXCEPT ![videoId].thumbnail = new],
                !.destroyed = {old} \ {NoFile},
                !.persist = "ok"]

\* ------------------------------------------------------------ pipeline steps
\* The response goes out with `status`: the send is a completion signal.
\* (The request record keeps the answer; `last` is left to the other routes.)
Respond(r, status, sc, ul) ==
    Signal([r EXCEPT !.pc = "responded", !.status = status], "send", sc, ul)

\* Stage and filter: the multipart parser writes the request's files to
\* scratch storage, the finalizer is attached, and every staged file is held
\* against its field's kind; a file that fails is answered 400 and no
\* controller runs.  (The gate in front has passed the request.)
Stage(op, user, body, files) ==
    LET r == [IdleUp EXCEPT !.pc = "controller", !.op = op, !.user = user, !.body = body,
                            !.files = files, !.staged = DOMAIN files]
        staged == DOMAIN files
        fresh == [f \in DOMAIN files |-> 0]
    IN  /\ up.pc = "idle"
        /\ nextFileId + Cardinality(DOMAIN files) <= MaxFiles + 1
        /\ IF \A x \in DOMAIN files : PassesFilter(x, files[x])
           THEN /\ up' = r
                /\ scratch' = staged
                /\ unlinks' = fresh
           ELSE Respond(r, 400, staged, fresh)
        /\ UNCHANGED <<users, tokenVars, last, contentVars, likeVars, otherVars, remote, nextFileId>>

RegisterBodies ==
    {Body(Usernames[u], Emails[u], "secret1", "", "", NoId) : u \in Uids}
        \cup {Body("", "n@x.com", "secret1", "", "", NoId),
              Body("bob", "n@x.com", "secret1", "", "", NoId),
              Body("b-b", "n@x.com", "secret1", "", "", NoId),
              Body("newbie", "nope", "secret1", "", "", NoId),
              Body("newbie", "n@x.com", "pw", "", "", NoId)}

PublishBodies ==
    {Body("", "", "", "clip", "about", NoId),
     Body("", "", "", "", "about", NoId),
     Body("", "", "", "clip", "", NoId)}

UpdateVideoBodies ==
    {Body("", "", "", t, "", id) : t \in {"", "clip"}, id \in PresentedIds(videos)}

\* POST /users/register
RegisterRequest ==
    \E body \in RegisterBodies, files \in FileSets({"avatar", "coverImage"}) :
        Stage("userRegister", NoUser, body, files)

\* PATCH /users/update-user-avatar
UpdateAvatarRequest ==
    \E u \in DOMAIN users, files \in FileSets({"avatar"}) :
        Stage("updateUserAvatar", u, NoBody, files)

\* PATCH /users/update-user-cover-image
UpdateCoverImageRequest ==
    \E u \in DOMAIN users, files \in FileSets({"coverImage"}) :
        Stage("updateUserCoverImage", u, NoBody, files)

\* POST /videos
PublishRequest ==
    \E u \in DOMAIN users, body \in PublishBodies, files \in FileSets({"videoFile", "thumbnail"}) :
        Stage("publishAVideo", u, body, files)

\* PATCH /videos/:videoId
UpdateVideoRequest ==
    \E u \in DOMAIN users, body \in UpdateVideoBodies, files \in FileSets({"thumbnail"}) :
        Stage("updateVideo", u, body, files)

Controller(r, ok, persistOk) ==
    IF r.op = "userRegister" THEN userRegister(r, ok, persistOk)
    ELSE IF r.op = "updateUserAvatar" THEN updateUserAvatar(r, ok, persistOk)
    ELSE IF r.op = "updateUserCoverImage" THEN updateUserCoverImage(r, ok, persistOk)
    ELSE IF r.op = "publishAVideo" THEN publishAVideo(r, ok, persistOk)
    ELSE updateVideo(r, ok, persistOk)

\* The controller runs to its response (asyncHandler turns a throw into the
\* error's status, 500 when it has none).
ControllerStep ==
    /\ up.pc = "controller"
    /\ \E ok \in [DOMAIN up.files -> BOOLEAN], persistOk \in BOOLEAN :
        LET o == Controller(up, ok, persistOk)
        IN  /\ users' = o.users
            /\ plain' = [u \in DOMAIN o.users |->
                            IF up.op = "userRegister" /\ u = o.created
                            THEN up.body.password ELSE plain[u]]
            /\ videos' = o.videos
            /\ remote' = o.remote
            /\ nextFileId' = o.nextFileId
            /\ Respond([up EXCEPT !.uploads = o.uploads, !.transferred = o.transferred,
                                  !.destroyed = o.destroyed, !.persist = o.persist,
                                  !.created = o.created],
                       o.status, scratch, unlinks)
    /\ UNCHANGED <<tokenVars, last, comments, tweets, likes, likeVars, playlists, subVars, areq, nextCommentId>>

\* The client drops the connection before the response: 'close'.
Abort ==
    /\ up.pc = "controller"
    /\ "close" \notin up.signals
    /\ Signal(up, "close", scratch, unlinks)
    /\ UNCHANGED <<users, tokenVars, last, contentVars, likeVars, otherVars, remote, nextFileId>>

\* The connection goes after the response: 'close'.
AfterResponse ==
    /\ up.pc = "responded"
    /\ "close" \notin up.signals
    /\ Signal(up, "close", scratch, unlinks)
    /\ UNCHANGED <<users, tokenVars, last, contentVars, likeVars, otherVars, remote, nextFileId>>

\* The request is over; the next one starts on an empty scratch directory.
EndRequest ==
    /\ up.pc = "responded"
    /\ up' = IdleUp
    /\ scratch' = {}
    /\ unlinks' = EmptyCollection
    /\ UNCHANGED <<users, tokenVars, last, contentVars, likeVars, otherVars, remote, nextFileId>>

\* ------------------------------------------------------- content controllers
\* The answer of a content route: the controller's status, the account the
\* request's access token resolves to (NoUser without a valid one), the id in
\* the path and the videos whose data the response carries.
Callers == DOMAIN users \cup {NoUser}

Response(handler, status, caller, target, shown) ==
    [Answer(handler, status) EXCEPT !.caller = caller, !.target = target, !.shown = shown]

\* deleteVideo.  Video.findOneAndDelete({_id, owner: req.user._id}) removes
\* the video only for its owner; Like.deleteMany({video}) and
\* Comment.deleteMany({video}) run before its answer is looked at; 404 when
\* it found nothing, otherwise the two remote files are deleted and 200.
deleteVideoAnyOwner(userId, videoId) ==
    /\ IF ~isValidObjectId(videoId)
       THEN /\ last' = Response("deleteVideo", 400, userId, videoId, {})
            /\ UNCHANGED <<videos, likes, comments, remote>>
       ELSE /\ likes' = {l \in likes : l.video # videoId}
            /\ comments' = Restrict(comments, {c \in DOMAIN comments : comments[c].video # videoId})
            /\ IF videoId \notin DOMAIN videos
               THEN /\ last' = Response("deleteVideo", 404, userId, videoId, {})
                    /\ UNCHANGED <<videos, remote>>
               ELSE /\ videos' = Restrict(videos, DOMAIN videos \ {videoId})
                    /\ remote' = deleteImageFromCloudinary(
                                    deleteVideoFromCloudinary(remote, {videos[videoId].videoFile}),
                                    {videos[videoId].thumbnail})
                    /\ last' = Response("deleteVideo", 200, userId, videoId, {})
    /\ UNCHANGED <<users, tokenVars, tweets, likeVars, otherVars>>
    /\ UNCHANGED <<up, nextFileId, scratch, unlinks>>
deleteVideo(userId, videoId) ==
    /\ IF ~isValidObjectId(videoId)
       THEN /\ last' = Response("deleteVideo", 400, userId, videoId, {})
            /\ UNCHANGED <<videos, likes, comments, remote>>
       ELSE /\ likes' = {l \in likes : l.video # videoId}
            /\ comments' = Restrict(comments, {c \in DOMAIN comments : comments[c].video # videoId})
            /\ IF videoId \notin DOMAIN videos \/ videos[videoId].owner # userId
               THEN /\ last' = Response("deleteVideo", 404, userId, videoId, {})
                    /\ UNCHANGED <<videos, remote>>
               ELSE /\ videos' = Restrict(videos, DOMAIN videos \ {videoId})
                    /\ remote' = deleteImageFromCloudinary(
                                    deleteVideoFromCloudinary(remote, {videos[videoId].videoFile}),
                                    {videos[videoId].thumbnail})
                    /\ last' = Response("deleteVideo", 200, userId, videoId, {})
    /\ UNCHANGED <<users, tokenVars, tweets, likeVars, otherVars>>
    /\ UNCHANGED <<up, nextFileId, scratch, unlinks>>

\* addComment: 400 on a malformed id or an empty content, 404 / 403 on a
\* missing / unpublished video, 400 when the caller has a comment on the
\* video already, otherwise the comment is created.
addComment(userId, videoId, content) ==
    LET commentId == nextCommentId
    IN  /\ IF ~isValidObjectId(videoId) \/ content = ""
           THEN /\ last' = Response("addComment", 400, userId, videoId, {})
                /\ UNCHANGED <<comments, nextCommentId>>
           ELSE IF videoId \notin DOMAIN videos
           THEN /\ last' = Response("addComment", 404, userId, videoId, {})
                /\ UNCHANGED <<comments, nextCommentId>>
           ELSE IF ~videos[videoId].isPublished
           THEN /\ last' = Response("addComment", 403, userId, videoId, {})
                /\ UNCHANGED <<comments, nextCommentId>>
           ELSE IF \E c \in DOMAIN comments :
                        comments[c].owner = userId /\ comments[c].video = videoId
           THEN /\ last' = Response("addComment", 400, userId, videoId, {})
                /\ UNCHANGED <<comments, nextCommentId>>
           ELSE /\ commentId <= MaxComments
                /\ comments' = [c \in DOMAIN comments \cup {commentId} |->
                                    IF c = commentId THEN [owner |-> userId, video |-> videoId]
                                    ELSE comments[c]]
                /\ nextCommentId' = commentId + 1
                /\ last' = Response("addComment", 201, userId, videoId, {})
        /\ UNCHANGED <<users, tokenVars, videos, tweets, likes, likeVars, playlists, subVars, areq, plain, upVars>>

\* deleteComment: 400, 404; a comment whose video is gone is removed for its
\* author only (its likes stay); otherwise the author or the video's owner
\* removes the comment and the likes on it, anyone else gets 403.
deleteCommentUnchecked(userId, commentId) ==
    /\ IF ~isValidObjectId(commentId)
       THEN /\ last' = Response("deleteComment", 400, userId, commentId, {})
            /\ UNCHANGED <<comments, likes>>
       ELSE IF commentId \notin DOMAIN comments
       THEN /\ last' = Response("deleteComment", 404, userId, commentId, {})
            /\ UNCHANGED <<comments, likes>>
       ELSE /\ comments' = Restrict(comments, DOMAIN comments \ {commentId})
            /\ likes' = {l \in likes : l.comment # commentId}
            /\ last' = Response("deleteComment", 200, userId, commentId, {})
    /\ UNCHANGED <<users, tokenVars, videos, tweets, likeVars, otherVars, upVars>>
deleteComment(userId, commentId) ==
    /\ IF ~isValidObjectId(commentId)
       THEN /\ last' = Response("deleteComment", 400, userId, commentId, {})
            /\ UNCHANGED <<comments, likes>>
       ELSE IF commentId \notin DOMAIN comments
       THEN /\ last' = Response("deleteComment", 404, userId, commentId, {})
            /\ UNCHANGED <<comments, likes>>
       ELSE IF comments[commentId].video \notin DOMAIN videos
       THEN IF comments[commentId].owner # userId
            THEN /\ last' = Response("deleteComment", 403, userId, commentId, {})
                 /\ UNCHANGED <<comments, likes>>
            ELSE /\ comments' = Restrict(comments, DOMAIN comments \ {commentId})
                 /\ last' = Response("deleteComment", 200, userId, commentId, {})
                 /\ UNCHANGED likes
       ELSE IF /\ comments[commentId].owner # userId
               /\ videos[comments[commentId].video].owner # userId
       THEN /\ last' = Response("deleteComment", 403, userId, commentId, {})
            /\ UNCHANGED <<comments, likes>>
       ELSE /\ comments' = Restrict(comments, DOMAIN comments \ {commentId})
            /\ likes' = {l \in likes : l.comment # commentId}
            /\ last' = Response("deleteComment", 200, userId, commentId, {})
    /\ UNCHANGED <<users, tokenVars, videos, tweets, likeVars, otherVars, upVars>>

\* deleteTweet: 400, 404, 403 for anyone but the author, otherwise the tweet
\* and the likes on it are removed.
deleteTweet(userId, tweetId) ==
    /\ IF ~isValidObjectId(tweetId)
       THEN /\ last' = Response("deleteTweet", 400, userId, tweetId, {})
            /\ UNCHANGED <<tweets, likes>>
       ELSE IF tweetId \notin DOMAIN tweets
       THEN /\ last' = Response("deleteTweet", 404, userId, tweetId, {})
            /\ UNCHANGED <<tweets, likes>>
       ELSE IF tweets[tweetId].owner # userId
       THEN /\ last' = Response("deleteTweet", 403, userId, tweetId, {})
            /\ UNCHANGED <<tweets, likes>>
       ELSE /\ tweets' = Restrict(tweets, DOMAIN tweets \ {tweetId})
            /\ likes' = {l \in likes : l.tweet # tweetId}
            /\ last' = Response("deleteTweet", 200, userId, tweetId, {})
    /\ UNCHANGED <<users, tokenVars, videos, comments, likeVars, otherVars, upVars>>

\* ------------------------------------------------------------ read routes
\* paginateArray(array, page, limit, label): the page under the key `label`
\* ('docs' unless the caller names one).  Pages are not modelled: the first
\* page holds every item.
paginateArray(array, label) == [key \in {label} |-> array]

\* getAllVideos: 400 on a malformed userId, otherwise the published videos
\* (of that owner, when userId is given).
getAllVideos(caller, given, userId) ==
    LET found == {v \in DOMAIN videos :
                    /\ videos[v].isPublished
                    /\ given => videos[v].owner = userId}
        paginatedVideos == paginateArray(found, "videos")
    IN  /\ IF given /\ ~isValidObjectId(userId)
           THEN last' = Response("getAllVideos", 400, caller, userId, {})
           ELSE last' = Response("getAllVideos", 200, caller, userId, paginatedVideos["videos"])
        /\ UNCHANGED <<users, tokenVars, contentVars, likeVars, otherVars, upVars>>

\* getVideoById, with req.user as the route hands it over (NoUser when it is
\* not set).  An authenticated caller: 404 on a missing video; a view is
\* counted for a non-owner on a published video; the owner may fetch an
\* unpublished one.  The aggregate then matches the video (published only,
\* unless the owner asks); 404 when it matches nothing.
getVideoById(caller, currentUser, videoId) ==
    LET exists == videoId \in DOMAIN videos
        isOwner == exists /\ videos[videoId].owner = currentUser
        shouldIncrementViews ==
            currentUser # NoUser /\ exists /\ ~isOwner /\ videos[videoId].isPublished
        isPublished == ~(currentUser # NoUser /\ isOwner)
        matched == exists /\ (isPublished => videos[videoId].isPublished)
    IN  /\ IF ~isValidObjectId(videoId)
           THEN /\ last' = Response("getVideoById", 400, caller, videoId, {})
                /\ UNCHANGED videos
           ELSE IF ~matched
           THEN /\ last' = Response("getVideoById", 404, caller, videoId, {})
                /\ UNCHANGED videos
           ELSE /\ videos' = IF shouldIncrementViews
                             THEN [videos EXCEPT ![videoId].views = @ + 1]
                             ELSE videos
                /\ last' = Response("getVideoById", 200, caller, videoId, {videoId})
        /\ UNCHANGED <<users, tokenVars, comments, tweets, likes, likeVars, otherVars, upVars>>

\* videoRouter.route('/:videoId').get(getVideoById): no middleware stands in
\* front of the controller, so req.user is never set, whatever token the
\* request carries.
GetVideoByIdRoute(caller, videoId) == getVideoById(caller, NoUser, videoId)

\* The ids a playlist's videos array holds.
Elements(array) == {array[i] : i \in 1..Len(array)}

\* createPlaylist: 400 on an empty name; isPublic: Boolean(req.body.isPublic).
createPlaylist(userId, name, isPublic) ==
    LET playlistId == NewId(playlists)
    IN  /\ IF name = ""
           THEN /\ last' = Response("createPlaylist", 400, userId, NoId, {})
                /\ UNCHANGED playlists
           ELSE /\ playlistId <= MaxPlaylists
                /\ playlists' = Put(playlists, playlistId,
                                    [name |-> name, description |-> "", owner |-> userId,
                                     isPublic |-> isPublic, videos |-> <<>>])
                /\ last' = Response("createPlaylist", 201, userId, playlistId, {})
        /\ UNCHANGED <<users, tokenVars, contentVars, likeVars, subVars, areq, nextCommentId, plain, upVars>>

\* addVideoToPlaylist: 400 on a malformed id, 404 on a missing video, 400 on
\* an unpublished one, 404 on a missing playlist, 403 for anyone but the
\* playlist's owner, 409 when the video is in it already.
addVideoToPlaylist(userId, videoId, playlistId) ==
    LET refuse(status) ==
            /\ last' = Response("addVideoToPlaylist", status, userId, playlistId, {})
            /\ UNCHANGED playlists
    IN  /\ IF ~isValidObjectId(playlistId) \/ ~isValidObjectId(videoId) THEN refuse(400)
           ELSE IF videoId \notin DOMAIN videos THEN refuse(404)
           ELSE IF ~videos[videoId].isPublished THEN refuse(400)
           ELSE IF playlistId \notin DOMAIN playlists THEN refuse(404)
           ELSE IF playlists[playlistId].owner # userId THEN refuse(403)
           ELSE IF videoId \in Elements(playlists[playlistId].videos) THEN refuse(409)
           ELSE /\ playlists' = [playlists EXCEPT ![playlistId].videos = Append(@, videoId)]
                /\ last' = Response("addVideoToPlaylist", 200, userId, playlistId, {})
        /\ UNCHANGED <<users, tokenVars, contentVars, likeVars, subVars, areq, nextCommentId, plain, upVars>>

\* getPlaylistVideosById: 400, 404, 403 on a private playlist of another
\* account; otherwise the playlist with its videos populated (a video that
\* no longer exists drops out).
getPlaylistVideosById(userId, playlistId) ==
    /\ IF ~isValidObjectId(playlistId)
       THEN last' = Response("getPlaylistVideosById", 400, userId, playlistId, {})
       ELSE IF playlistId \notin DOMAIN playlists
       THEN last' = Response("getPlaylistVideosById", 404, userId, playlistId, {})
       ELSE IF ~playlists[playlistId].isPublic /\ playlists[playlistId].owner # userId
       THEN last' = Response("getPlaylistVideosById", 403, userId, playlistId, {})
       ELSE last' = Response("getPlaylistVideosById", 200, userId, playlistId,
                             Elements(playlists[playlistId].videos) \cap DOMAIN videos)
    /\ UNCHANGED <<users, tokenVars, contentVars, likeVars, otherVars, upVars>>

\* getLikedVideos: the caller's likes on videos, populated; the page is
\* built by paginateArray under its default key and read back under 'data',
\* and a page without 'data' is answered as an empty list.
getLikedVideos(likedBy) ==
    LET validLikes == {l \in likes : l.likedBy = likedBy /\ l.video \in DOMAIN videos}
        paginatedVideos == paginateArray({l.video : l \in validLikes}, "docs")
        data == IF "data" \in DOMAIN paginatedVideos THEN paginatedVideos["data"] ELSE {}
    IN  /\ last' = Response("getLikedVideos", 200, likedBy, NoId, data)
        /\ UNCHANGED <<users, tokenVars, contentVars, likeVars, otherVars, upVars>>

\* getUserWatchHistory: the videos of the caller's watchHistory.  No handler
\* writes watchHistory: it is the empty list the schema starts it as.
watchHistory(userId) == {}

getUserWatchHistory(userId) ==
    /\ last' = Response("getUserWatchHistory", 200, userId, NoId,
                        watchHistory(userId) \cap DOMAIN videos)
    /\ UNCHANGED <<users, tokenVars, contentVars, likeVars, otherVars, upVars>>

\* ------------------------------------------------------ subscription toggles
\* An ObjectId travels in a path as 24 hex digits.  The ids of the accounts
\* contain letters among their digits, so each has a lowercase and an
\* uppercase spelling; ObjectId.toString() writes the lowercase one, and
\* isValidObjectId and the cast of a query or a new document take both.
ObjectIdString(id) == [id |-> id, upper |-> FALSE]
CastObjectId(str) == str.id

\* The channelId a client can put in the path: a malformed one, each account
\* in both spellings, and a well-formed one that names no account.
ChannelIds ==
    {[id |-> NoId, upper |-> FALSE]}
        \cup {[id |-> i, upper |-> b] : i \in 1..(NumUsers + 1), b \in BOOLEAN}

IdleSub ==
    [pc |-> "idle", subscriber |-> NoUser, channelId |-> ObjectIdString(NoId),
     existingSubscription |-> NoId]

SubsInFlight == {c \in Conns : sreq[c].pc # "idle"}

\* Subscription.find({channel, subscriber})
SubscriptionsOf(subscriber, channel) ==
    {s \in subscriptions : s.subscriber = subscriber /\ s.channel = channel}

\* Subscription.create under the unique index on (subscriber, channel): the
\* insert of a second document for a pair fails with code 11000.
SubscriptionCreateNoIndex(subscriber, channel) ==
    [code |-> 0,
     docs |-> subscriptions \cup {[id |-> nextSubId, subscriber |-> subscriber, channel |-> channel]}]
SubscriptionCreate(subscriber, channel) ==
    IF SubscriptionsOf(subscriber, channel) # {}
    THEN [code |-> 11000, docs |-> subscriptions]
    ELSE [code |-> 0,
          docs |-> subscriptions \cup
                    {[id |-> nextSubId, subscriber |-> subscriber, channel |-> channel]}]

\* toggleSubscription up to its first await: 400 on a malformed channelId,
\* 400 when req.user._id.toString() === channelId; otherwise the request
\* goes on to Subscription.findOne.  (The routes put requireAuth in front,
\* so req.user is set.)
toggleSubscription(c, userId, channelId) ==
    /\ sreq[c].pc = "idle"
    /\ \A d \in Conns \ SubsInFlight : c <= d
    /\ IF ~isValidObjectId(CastObjectId(channelId))
       THEN /\ last' = Response("toggleSubscription", 400, userId, CastObjectId(channelId), {})
            /\ UNCHANGED sreq
       ELSE IF ObjectIdString(userId) = channelId
       THEN /\ last' = Response("toggleSubscription", 400, userId, CastObjectId(channelId), {})
            /\ UNCHANGED sreq
       ELSE /\ nextSubId + Cardinality(SubsInFlight) <= MaxSubs
            /\ sreq' = [sreq EXCEPT ![c] = [pc |-> "findOne", subscriber |-> userId,
                                            channelId |-> channelId,
                                            existingSubscription |-> NoId]]
            /\ last' = last
    /\ UNCHANGED <<users, tokenVars, contentVars, likeVars, upVars>>
    /\ UNCHANGED <<playlists, subscriptions, nextSubId, areq, nextCommentId, plain>>

\* existingSubscription = await Subscription.findOne({channel, subscriber})
SubFindOne(c) ==
    LET r == sreq[c]
        found == SubscriptionsOf(r.subscriber, CastObjectId(r.channelId))
        first == CHOOSE s \in found : \A t \in found : s.id <= t.id
    IN  /\ r.pc = "findOne"
        /\ sreq' = [sreq EXCEPT ![c].pc = "write",
                                ![c].existingSubscription =
                                    IF found = {} THEN NoId ELSE first.id]
        /\ UNCHANGED <<users, tokenVars, last, contentVars, likeVars, upVars>>
        /\ UNCHANGED <<playlists, subscriptions, nextSubId, areq, nextCommentId, plain>>

\* The rest of the handler: Subscription.findByIdAndDelete and 200, or
\* Subscription.create and 201; in the catch, code 11000 becomes 409.
SubWrite(c) ==
    LET r == sreq[c]
        channel == CastObjectId(r.channelId)
        created == SubscriptionCreate(r.subscriber, channel)
    IN  /\ r.pc = "write"
        /\ IF r.existingSubscription # NoId
           THEN /\ subscriptions' = {s \in subscriptions : s.id # r.existingSubscription}
                /\ UNCHANGED nextSubId
                /\ last' = Response("toggleSubscription", 200, r.subscriber, channel, {})
           ELSE IF created.code = 11000
           THEN /\ UNCHANGED <<subscriptions, nextSubId>>
                /\ last' = Response("toggleSubscription", 409, r.subscriber, channel, {})
           ELSE /\ subscriptions' = created.docs
                /\ nextSubId' = nextSubId + 1
                /\ last' = Response("toggleSubscription", 201, r.subscriber, channel, {})
        /\ sreq' = [sreq EXCEPT ![c] = IdleSub]
        /\ UNCHANGED <<users, tokenVars, contentVars, likeVars, upVars>>
        /\ UNCHANGED <<playlists, areq, nextCommentId, plain>>

\* ------------------------------------------------- register, rename, password
\* String.prototype.toLowerCase, on the names the requests carry.
toLowerCase(s) ==
    IF s = "ALICE" THEN "alice"
    ELSE IF s = "Newbie" THEN "newbie"
    ELSE IF s = "N@X.COM" THEN "n@x.com"
    ELSE s

IdleAccount ==
    [pc |-> "idle", op |-> "none", user |-> NoUser, username |-> "", email |-> "",
     password |-> "", incoming |-> NoToken, userVideos |-> {}, urls |-> {},
     playlistId |-> NoId, videoId |-> NoId]

\* The unique indexes of userSchema: an insert or an update that would give
\* two documents one username or one email fails with a duplicate-key error.
DuplicateKey(self, username, email) ==
    \E v \in DOMAIN users \ {self} :
        users[v].username = username \/ users[v].email = email

\* A duplicate-key error is no ApiError: it has no statusCode, and
\* asyncHandler answers error.statusCode || 500.
DuplicateKeyStatus == 500

\* userRegister up to User.findOne: the 400s, then 409 when an account has
\* the lowercased username or email.  (No image is sent.)
RegisterFindOne(c, username, email, password) ==
    LET doesUserExist ==
            \E u \in DOMAIN users :
                users[u].username = toLowerCase(username) \/ users[u].email = toLowerCase(email)
        status ==
            IF username = "" \/ email = "" \/ password = "" THEN 400
            ELSE IF email \in MalformedEmails THEN 400
            ELSE IF username \in MalformedUsernames THEN 400
            ELSE IF Len(password) < 6 THEN 400
            ELSE IF doesUserExist THEN 409
            ELSE 0
    IN  /\ areq[c].pc = "idle"
        /\ Cardinality(DOMAIN users) < MaxAccounts
        /\ IF status # 0
           THEN /\ last' = Response("userRegister", status, NoUser, NoId, {})
                /\ UNCHANGED areq
           ELSE /\ areq' = [areq EXCEPT ![c] = [IdleAccount EXCEPT
                                                !.pc = "create", !.op = "userRegister",
                                                !.username = username, !.email = email,
                                                !.password = password]]
                /\ last' = last
        /\ UNCHANGED <<users, tokenVars, contentVars, likeVars, upVars>>
        /\ UNCHANGED <<playlists, subVars, nextCommentId, plain>>

\* User.create({username: username.toLowerCase(), email: email.toLowerCase(),
\* password, ...}): the schema's minlength 5 on username and the unique
\* indexes can refuse the document; otherwise the account exists and 201.
RegisterCreate(c) ==
    LET r == areq[c]
        username == toLowerCase(r.username)
        email == toLowerCase(r.email)
        id == NewId(users)
    IN  /\ r.pc = "create"
        /\ r.op = "userRegister"
        /\ IF Len(username) < 5
           THEN /\ last' = Response("userRegister", 500, NoUser, NoId, {})
                /\ UNCHANGED <<users, plain>>
           ELSE IF DuplicateKey(NoUser, username, email)
           THEN /\ last' = Response("userRegister", DuplicateKeyStatus, NoUser, NoId, {})
                /\ UNCHANGED <<users, plain>>
           ELSE /\ users' = Put(users, id,
                                [username |-> username, email |-> email,
                                 password |-> Hash(r.password), refreshToken |-> NoToken,
                                 avatar |-> NoFile, coverImage |-> NoFile])
                /\ plain' = Put(plain, id, r.password)
                /\ last' = Response("userRegister", 201, NoUser, id, {})
        /\ areq' = [areq EXCEPT ![c] = IdleAccount]
        /\ UNCHANGED <<tokenVars, contentVars, likeVars, upVars>>
        /\ UNCHANGED <<playlists, subVars, nextCommentId>>

\* updateAccountDetails up to User.findOne (fullName is not sent): 400 without
\* a username or with a malformed one, 409 when another account has the
\* lowercased username.
UpdateAccountFindOne(c, userId, username) ==
    LET existingUser ==
            \E v \in DOMAIN users \ {userId} : users[v].username = toLowerCase(username)
        status ==
            IF username = "" THEN 400
            ELSE IF username \in MalformedUsernames THEN 400
            ELSE IF existingUser THEN 409
            ELSE 0
    IN  /\ areq[c].pc = "idle"
        /\ IF status # 0
           THEN /\ last' = Response("updateAccountDetails", status, userId, userId, {})
                /\ UNCHANGED areq
           ELSE /\ areq' = [areq EXCEPT ![c] = [IdleAccount EXCEPT
                                                !.pc = "save", !.op = "updateAccountDetails",
                                                !.user = userId, !.username = username]]
                /\ last' = last
        /\ UNCHANGED <<users, tokenVars, contentVars, likeVars, upVars>>
        /\ UNCHANGED <<playlists, subVars, nextCommentId, plain>>

\* req.user.username = username.toLowerCase(); req.user.save({
\* validateBeforeSave: false }): the schema's validators are skipped, the
\* unique index is not.
UpdateAccountSave(c) ==
    LET r == areq[c]
        username == toLowerCase(r.username)
    IN  /\ r.pc = "save"
        /\ r.op = "updateAccountDetails"
        /\ IF DuplicateKey(r.user, username, users[r.user].email)
           THEN /\ last' = Response("updateAccountDetails", DuplicateKeyStatus, r.user, r.user, {})
                /\ UNCHANGED users
           ELSE /\ users' = [users EXCEPT ![r.user].username = username]
                /\ last' = Response("updateAccountDetails", 200, r.user, r.user, {})
        /\ areq' = [areq EXCEPT ![c] = IdleAccount]
        /\ UNCHANGED <<tokenVars, contentVars, likeVars, upVars>>
        /\ UNCHANGED <<playlists, subVars, nextCommentId, plain>>

\* changeCurrentPassword (behind requireAuth): 400 on an empty field, on a
\* new password equal to the current one or shorter than 6; 401 when
\* isPasswordCorrect(currentPassword) fails; otherwise the new password is
\* hashed by the pre-save hook and stored.
changeCurrentPassword(userId, currentPassword, newPassword) ==
    /\ IF currentPassword = "" \/ newPassword = ""
       THEN /\ last' = Response("changeCurrentPassword", 400, userId, userId, {})
            /\ UNCHANGED <<users, plain>>
       ELSE IF currentPassword = newPassword \/ Len(newPassword) < 6
       THEN /\ last' = Response("changeCurrentPassword", 400, userId, userId, {})
            /\ UNCHANGED <<users, plain>>
       ELSE IF ~isPasswordCorrect(users[userId], currentPassword)
       THEN /\ last' = Response("changeCurrentPassword", 401, userId, userId, {})
            /\ UNCHANGED <<users, plain>>
       ELSE /\ users' = [users EXCEPT ![userId].password = Hash(newPassword)]
            /\ plain' = [plain EXCEPT ![userId] = newPassword]
            /\ last' = Response("changeCurrentPassword", 200, userId, userId, {})
    /\ UNCHANGED <<tokenVars, contentVars, likeVars, upVars>>
    /\ UNCHANGED <<playlists, subVars, areq, nextCommentId>>

\* ------------------------------------------- deleteUserAccount, await by await
\* The handler up to Video.find: 400 without a password, 401 when
\* isPasswordCorrect fails; otherwise it holds the account's videos and the
\* urls of their files and of the account's avatar and cover image.  (An
\* account has one deletion in flight at a time.)
DeleteAccountBegin(c, userId, password) ==
    LET userVideos == {v \in DOMAIN videos : videos[v].owner = userId}
        urls == {videos[v].videoFile : v \in userVideos}
                    \cup {videos[v].thumbnail : v \in userVideos}
                    \cup {users[userId].avatar, users[userId].coverImage}
    IN  /\ areq[c].pc = "idle"
        /\ \A d \in Conns : areq[d].user # userId
        /\ IF password = ""
           THEN /\ last' = Response("delete-account", 400, userId, userId, {})
                /\ UNCHANGED areq
           ELSE IF ~isPasswordCorrect(users[userId], password)
           THEN /\ last' = Response("delete-account", 401, userId, userId, {})
                /\ UNCHANGED areq
           ELSE /\ areq' = [areq EXCEPT ![c] = [IdleAccount EXCEPT
                                !.pc = "files", !.op = "deleteUserAccount", !.user = userId,
                                !.userVideos = userVideos, !.urls = urls]]
                /\ last' = last
        /\ UNCHANGED <<users, tokenVars, contentVars, likeVars, upVars>>
        /\ UNCHANGED <<playlists, subVars, nextCommentId, plain>>

\* The awaits of the cascade, in the order of the code.
CascadeOrder ==
    <<"files", "likesOnContent", "likesMade", "commentsOnVideos", "comments", "tweets",
      "playlists", "videos", "subscriptions", "user">>

CascadeNext(pc) ==
    IF pc = "user" THEN "idle"
    ELSE CascadeOrder[(CHOOSE i \in 1..Len(CascadeOrder) : CascadeOrder[i] = pc) + 1]

\* One await of the cascade.  The remote deletes come first and all go through
\* deleteImageFromCloudinary; then the nine deleteMany / findByIdAndDelete
\* calls; the response follows the last one.
DeleteAccountAwait(c) ==
    LET r == areq[c]
        userId == r.user
        userComments == {x \in DOMAIN comments : comments[x].owner = userId}
        userTweets == {t \in DOMAIN tweets : tweets[t].owner = userId}
    IN  /\ r.op = "deleteUserAccount"
        /\ remote' = IF r.pc = "files" THEN deleteImageFromCloudinary(remote, r.urls) ELSE remote
        /\ likes' =
            IF r.pc = "likesOnContent"
            THEN {l \in likes : /\ l.video \notin r.userVideos
                                /\ l.comment \notin userComments
                                /\ l.tweet \notin userTweets}
            ELSE IF r.pc = "likesMade" THEN {l \in likes : l.likedBy # userId}
            ELSE likes
        /\ comments' =
            IF r.pc = "commentsOnVideos"
            THEN Restrict(comments, {x \in DOMAIN comments : comments[x].video \notin r.userVideos})
            ELSE IF r.pc = "comments" THEN Restrict(comments, DOMAIN comments \ userComments)
            ELSE comments
        /\ tweets' = IF r.pc = "tweets" THEN Restrict(tweets, DOMAIN tweets \ userTweets) ELSE tweets
        /\ playlists' =
            IF r.pc = "playlists"
            THEN Restrict(playlists, {p \in DOMAIN playlists : playlists[p].owner # userId})
            ELSE playlists
        /\ videos' =
            IF r.pc = "videos"
            THEN Restrict(videos, {v \in DOMAIN videos : videos[v].owner # userId})
            ELSE videos
        /\ subscriptions' =
            IF r.pc = "subscriptions"
            THEN {s \in subscriptions : s.subscriber # userId /\ s.channel # userId}
            ELSE subscriptions
        /\ users' = IF r.pc = "user" THEN Restrict(users, DOMAIN users \ {userId}) ELSE users
        /\ plain' = IF r.pc = "user" THEN Restrict(plain, DOMAIN plain \ {userId}) ELSE plain
        /\ last' = IF r.pc = "user"
                   THEN Response("delete-account", 200, userId, userId, {})
                   ELSE last
        /\ areq' = [areq EXCEPT ![c] =
                        IF r.pc = "user" THEN IdleAccount ELSE [r EXCEPT !.pc = CascadeNext(r.pc)]]
        /\ UNCHANGED <<tokenVars, likeVars, nextSubId, sreq, nextCommentId>>
        /\ UNCHANGED <<up, nextFileId, scratch, unlinks>>

\* ------------------------------------------- refreshAccessToken, await by await
\* The handler up to User.findById: 401 unless the token it reads is the
\* stored refresh token of the account it names; otherwise it holds the
\* account's document.  (requireGuest has let the request through.)
RefreshFindById(c, rreq) ==
    LET incoming == ReadRefreshToken(rreq)
        u == RefreshSubject(incoming)
    IN  /\ areq[c].pc = "idle"
        /\ \A d \in Conns : areq[d].pc = "idle" => c <= d
        /\ pending = NoPending
        /\ IF u = NoUser
           THEN /\ last' = Answer("refresh", 401)
                /\ UNCHANGED areq
           ELSE /\ areq' = [areq EXCEPT ![c] = [IdleAccount EXCEPT
                                !.pc = "issue", !.op = "refreshAccessToken",
                                !.user = u, !.incoming = incoming]]
                /\ last' = last
        /\ UNCHANGED <<users, tokenVars, contentVars, likeVars, upVars>>
        /\ UNCHANGED <<playlists, subVars, nextCommentId, plain>>

\* generateAccessTokenAndRefreshToken(user) and the response: both tokens are
\* signed, the refresh token is saved on the account, 200.
RefreshIssue(c) ==
    LET u == areq[c].user
    IN  /\ areq[c].pc = "issue"
        /\ areq[c].op = "refreshAccessToken"
        /\ CanIssue(u)
        /\ users' = StoreRefreshToken(u, generateRefreshToken(u))
        /\ NoteIssued(u)
        /\ last' = [Answer("refresh", 200) EXCEPT !.newRT = generateRefreshToken(u)]
        /\ areq' = [areq EXCEPT ![c] = IdleAccount]
        /\ UNCHANGED <<now, pending, revoked, contentVars, likeVars, upVars>>
        /\ UNCHANGED <<playlists, subVars, nextCommentId, plain>>

\* ------------------------------------------------------- error boundaries
\* What a handler or a middleware throws: an ApiError carries its statusCode;
\* any other exception carries its own message and stack, and the status
\* fields its library gave it (0: none).
Thrown ==
    {[apiError |-> TRUE, statusCode |-> 401, status |-> 0,
      message |-> "Invalid user credentials.", stack |-> "ApiError: at userLogin"],
     [apiError |-> TRUE, statusCode |-> 500, status |-> 0,
      message |-> "Failed to generate tokens.", stack |-> "ApiError: at generateAccessTokenAndRefreshToken"],
     [apiError |-> FALSE, statusCode |-> 0, status |-> 0,
      message |-> "E11000 duplicate key error collection: test.users index: username_1",
      stack |-> "MongoServerError: at Collection.insertOne"],
     [apiError |-> FALSE, statusCode |-> 0, status |-> 0,
      message |-> "Cast to ObjectId failed for value", stack |-> "CastError: at model.Query.exec"],
     [apiError |-> FALSE, statusCode |-> 0, status |-> 0,
      message |-> "Password must be of type string.", stack |-> "TypeError: at isPasswordCorrect"],
     [apiError |-> FALSE, statusCode |-> 0, status |-> 0,
      message |-> "", stack |-> "Error: at connect"],
     [apiError |-> FALSE, statusCode |-> 400, status |-> 400,
      message |-> "Unexpected token } in JSON at position 12", stack |-> "SyntaxError: at JSON.parse"]}

NodeEnvs == {"production", "development"}

\* asyncHandler's catch: res.status(error.statusCode || 500) and an envelope
\* of error.message || 'Internal Server Error.'; NODE_ENV is not read, the
\* stack is not sent.
asyncHandler(error, nodeEnv) ==
    [status |-> IF error.statusCode # 0 THEN error.statusCode ELSE 500,
     message |-> IF error.message # "" THEN error.message ELSE "Internal Server Error.",
     stack |-> ""]

\* The global error handler: error.status || 500, and the exception's message
\* and stack in development only.
GlobalErrorHandler(error, nodeEnv) ==
    [status |-> IF error.status # 0 THEN error.status ELSE 500,
     message |-> IF nodeEnv = "development" THEN error.message ELSE "Internal Server Error",
     stack |-> IF nodeEnv = "development" THEN error.stack ELSE ""]

\* The controllers are all wrapped in asyncHandler, so what they throw is
\* answered there and never reaches the global error handler; that one gets
\* what the middlewares mounted with app.use throw.
Wrapped ==
    {"userRegister", "userLogin", "refreshAccessToken", "updateAccountDetails",
     "publishAVideo", "getVideoById", "toggleSubscription", "createPlaylist"}
Unwrapped == {"express.json", "express.urlencoded", "cookieParser"}

Envelope(handler, error, nodeEnv, sent) ==
    [NoObs EXCEPT !.handler = handler, !.status = sent.status, !.mode = nodeEnv,
                  !.apiError = error.apiError, !.message = sent.message, !.stack = sent.stack]

HandlerThrows(handler, error, nodeEnv) ==
    /\ last' = Envelope(handler, error, nodeEnv, asyncHandler(error, nodeEnv))
    /\ UNCHANGED <<users, tokenVars, contentVars, likeVars, upVars, otherVars>>

MiddlewareThrows(handler, error, nodeEnv) ==
    /\ last' = Envelope(handler, error, nodeEnv, GlobalErrorHandler(error, nodeEnv))
    /\ UNCHANGED <<users, tokenVars, contentVars, likeVars, upVars, otherVars>>

\* -------------------------------------------------------------- playlists
\* playlist.controller.js, the handlers that change a playlist.  A body
\* field that was not sent is Undefined.
Undefined == "undefined"

\* String.prototype.trim on the names the requests carry.
trim(s) ==
    IF s = " " THEN ""
    ELSE IF s = " mix2 " THEN "mix2"
    ELSE s

\* A value JavaScript treats as true in a condition.
Truthy(field) == field # Undefined /\ field # ""

MaxNameLen == 100
MaxDescriptionLen == 500

\* updatePlaylist: 400 on a malformed id, 400 when no field was sent, 400 on
\* a name, description or isPublic that fails validation, 404 on a missing
\* playlist, 403 for anyone but its owner; otherwise the fields that were
\* sent are written.
updatePlaylist(userId, playlistId, name, description, isPublic) ==
    LET refuse(status) ==
            /\ last' = Response("updatePlaylist", status, userId, playlistId, {})
            /\ UNCHANGED playlists
        playlist == playlists[playlistId]
        named == IF Truthy(name) THEN [playlist EXCEPT !.name = trim(name)] ELSE playlist
        described == IF description # Undefined
                     THEN [named EXCEPT !.description = trim(description)] ELSE named
        updated == IF isPublic # Undefined
                   THEN [described EXCEPT !.isPublic = (isPublic = "true")] ELSE described
    IN  /\ IF ~isValidObjectId(playlistId) THEN refuse(400)
           ELSE IF ~Truthy(name) /\ ~Truthy(description) /\ isPublic = Undefined THEN refuse(400)
           ELSE IF Truthy(name) /\ (Len(trim(name)) = 0 \/ Len(trim(name)) > MaxNameLen)
           THEN refuse(400)
           ELSE IF Truthy(description) /\ Len(description) > MaxDescriptionLen THEN refuse(400)
           ELSE IF Truthy(isPublic) /\ isPublic \notin {"true", "false"} THEN refuse(400)
           ELSE IF playlistId \notin DOMAIN playlists THEN refuse(404)
           ELSE IF playlist.owner # userId THEN refuse(403)
           ELSE /\ playlists' = [playlists EXCEPT ![playlistId] = updated]
                /\ last' = Response("updatePlaylist", 200, userId, playlistId, {})
        /\ UNCHANGED <<users, tokenVars, contentVars, likeVars, subVars, areq, nextCommentId, plain, upVars>>

\* deletePlaylist without its comparison of the owner: any account deletes
\* the playlist.
deletePlaylistAnyone(userId, playlistId) ==
    LET refuse(status) ==
            /\ last' = Response("deletePlaylist", status, userId, playlistId, {})
            /\ UNCHANGED playlists
    IN  /\ IF ~isValidObjectId(playlistId) THEN refuse(400)
           ELSE IF playlistId \notin DOMAIN playlists THEN refuse(404)
           ELSE /\ playlists' = Restrict(playlists, DOMAIN playlists \ {playlistId})
                /\ last' = Response("deletePlaylist", 200, userId, playlistId, {})
        /\ UNCHANGED <<users, tokenVars, contentVars, likeVars, subVars, areq, nextCommentId, plain, upVars>>

\* deletePlaylist: 400, 404, 403 for anyone but the owner, otherwise
\* Playlist.deleteOne.
deletePlaylist(userId, playlistId) ==
    LET refuse(status) ==
            /\ last' = Response("deletePlaylist", status, userId, playlistId, {})
            /\ UNCHANGED playlists
    IN  /\ IF ~isValidObjectId(playlistId) THEN refuse(400)
           ELSE IF playlistId \notin DOMAIN playlists THEN refuse(404)
           ELSE IF playlists[playlistId].owner # userId THEN refuse(403)
           ELSE /\ playlists' = Restrict(playlists, DOMAIN playlists \ {playlistId})
                /\ last' = Response("deletePlaylist", 200, userId, playlistId, {})
        /\ UNCHANGED <<users, tokenVars, contentVars, likeVars, subVars, areq, nextCommentId, plain, upVars>>

\* Array.prototype.findIndex for an id, counted from 1; 0 when it is absent.
findIndex(array, id) ==
    IF id \in Elements(array)
    THEN CHOOSE i \in 1..Len(array) : array[i] = id /\ \A j \in 1..(i - 1) : array[j] # id
    ELSE 0

\* Array.prototype.splice(index, 1).
splice(array, index) == SubSeq(array, 1, index - 1) \o SubSeq(array, index + 1, Len(array))

\* removeVideoFromPlaylist: 400 on a malformed playlist or video id, 404 on a
\* missing playlist, 403 for anyone but the owner, 404 when the video is not
\* in the list; otherwise its first occurrence is cut out.
removeVideoFromPlaylist(userId, videoId, playlistId) ==
    LET refuse(status) ==
            /\ last' = Response("removeVideoFromPlaylist", status, userId, playlistId, {})
            /\ UNCHANGED playlists
    IN  /\ IF ~isValidObjectId(playlistId) \/ ~isValidObjectId(videoId) THEN refuse(400)
           ELSE IF playlistId \notin DOMAIN playlists THEN refuse(404)
           ELSE IF playlists[playlistId].owner # userId THEN refuse(403)
           ELSE IF findIndex(playlists[playlistId].videos, videoId) = 0 THEN refuse(404)
           ELSE /\ playlists' = [playlists EXCEPT ![playlistId].videos =
                                    splice(@, findIndex(@, videoId))]
                /\ last' = Response("removeVideoFromPlaylist", 200, userId, playlistId, {})
        /\ UNCHANGED <<users, tokenVars, contentVars, likeVars, subVars, areq, nextCommentId, plain, upVars>>

\* addVideoToPlaylist with its awaits.  The handler reads the video and the
\* playlist, runs its checks on what it read, and pushes the id onto the
\* array it holds ...
AddVideoFindById(c, userId, videoId, playlistId) ==
    LET refuse(status) ==
            /\ last' = Response("addVideoToPlaylist", status, userId, playlistId, {})
            /\ UNCHANGED areq
    IN  /\ areq[c].pc = "idle"
        /\ \A d \in Conns : areq[d].pc = "idle" => c <= d
        /\ IF ~isValidObjectId(playlistId) \/ ~isValidObjectId(videoId) THEN refuse(400)
           ELSE IF videoId \notin DOMAIN videos THEN refuse(404)
           ELSE IF ~videos[videoId].isPublished THEN refuse(400)
           ELSE IF playlistId \notin DOMAIN playlists THEN refuse(404)
           ELSE IF playlists[playlistId].owner # userId THEN refuse(403)
           ELSE IF videoId \in Elements(playlists[playlistId].videos) THEN refuse(409)
           ELSE /\ areq' = [areq EXCEPT ![c] = [IdleAccount EXCEPT
                                !.pc = "save", !.op = "addVideoToPlaylist", !.user = userId,
                                !.playlistId = playlistId, !.videoId = videoId]]
                /\ last' = last
        /\ UNCHANGED <<users, tokenVars, contentVars, likeVars, upVars>>
        /\ UNCHANGED <<playlists, subVars, nextCommentId, plain>>

\* ... and playlist.save() sends that push to the stored array, whatever it
\* holds by then; it throws when the playlist is gone.
AddVideoSave(c) ==
    LET playlistId == areq[c].playlistId
    IN  /\ areq[c].pc = "save"
        /\ areq[c].op = "addVideoToPlaylist"
        /\ areq' = [areq EXCEPT ![c] = IdleAccount]
        /\ IF playlistId \in DOMAIN playlists
           THEN /\ playlists' = [playlists EXCEPT ![playlistId].videos =
                                    Append(@, areq[c].videoId)]
                /\ last' = Response("addVideoToPlaylist", 200, areq[c].user, playlistId, {})
           ELSE /\ last' = Response("addVideoToPlaylist", 500, areq[c].user, playlistId, {})
                /\ UNCHANGED playlists
        /\ UNCHANGED <<users, tokenVars, contentVars, likeVars, upVars>>
        /\ UNCHANGED <<subVars, nextCommentId, plain>>

\* ------------------------------------------------------------ initial states
\* A registered account, as userRegister leaves it when no image is sent.
Registered(u) ==
    [username |-> Usernames[u], email |-> Emails[u], password |-> Hash("secret1"),
     refreshToken |-> NoToken, avatar |-> NoFile, coverImage |-> NoFile]

NobodyLoggedIn ==
    /\ now = 0
    /\ pending = NoPending
    /\ issued = {}
    /\ superseded = {}
    /\ revoked = {}
    /\ last = NoObs

NoContent ==
    /\ videos = EmptyCollection
    /\ comments = EmptyCollection
    /\ tweets = EmptyCollection
    /\ likes = {}
    /\ nextCommentId = 1

NoToggles ==
    /\ nextLikeId = 1
    /\ treq = [c \in Conns |-> Idle]
    /\ run = NoRun

NoUpload ==
    /\ up = IdleUp
    /\ scratch = {}
    /\ unlinks = EmptyCollection

NoRemoteFiles ==
    /\ remote = EmptyCollection
    /\ nextFileId = 1


NoChannels ==
    /\ playlists = EmptyCollection
    /\ subscriptions = {}
    /\ nextSubId = 1
    /\ sreq = [c \in Conns |-> IdleSub]
    /\ areq = [c \in Conns |-> IdleAccount]
    /\ plain = [u \in DOMAIN users |-> "secret1"]

\* ------------------------------------------------------------- SpecAuth
\* The accounts are registered, nobody is logged in.
InitAuth ==
    /\ users = [u \in Uids |-> Registered(u)]
    /\ NobodyLoggedIn
    /\ NoContent
    /\ NoToggles
    /\ NoUpload
    /\ NoRemoteFiles
    /\ NoChannels

LoginStep == \E n \in LoginNames, p \in Passwords \cup {""} : userLogin(n, p)
RefreshStep == \E rreq \in RefreshReqs : refreshAccessToken(rreq)
DeleteAccountStep == \E p \in Passwords \cup {""} : deleteUserAccount(p)

NextAuth ==
    \/ RequireAuthStep
    \/ RequireGuestStep
    \/ LoginStep
    \/ userLogout
    \/ RefreshStep
    \/ getCurrentUser
    \/ DeleteAccountStep
    \/ Tick

SpecAuth == InitAuth /\ [][NextAuth]_vars

\* ------------------------------------------------------------- SpecLike
\* The first account has published a video and posted a tweet, the second
\* has commented on the video; nobody has liked anything yet.
InitLike ==
    /\ users = [u \in Uids |-> Registered(u)]
    /\ NobodyLoggedIn
    /\ videos = [v \in {1} |-> [owner |-> 1, isPublished |-> TRUE, videoFile |-> 1, thumbnail |-> 2,
                               views |-> 0]]
    /\ comments = [c \in {1} |-> [owner |-> 2, video |-> 1]]
    /\ tweets = [t \in {1} |-> [owner |-> 1]]
    /\ likes = {}
    /\ nextCommentId = 2
    /\ NoToggles
    /\ NoUpload
    /\ NoChannels
    /\ remote = [f \in {1, 2} |-> IF f = 1 THEN "video" ELSE "image"]
    /\ nextFileId = 3

ToggleVideoLikeStep ==
    \E c \in Conns, u \in DOMAIN users, id \in PresentedIds(videos) : toggleVideoLike(c, u, id)
ToggleCommentLikeStep ==
    \E c \in Conns, u \in DOMAIN users, id \in PresentedIds(comments) : toggleCommentLike(c, u, id)
ToggleTweetLikeStep ==
    \E c \in Conns, u \in DOMAIN users, id \in PresentedIds(tweets) : toggleTweetLike(c, u, id)
LikeFindOneStep == \E c \in Conns : LikeFindOne(c)
LikeWriteStep == \E c \in Conns : LikeWrite(c)
TogglePublishStatusStep ==
    \E u \in DOMAIN users, id \in PresentedIds(videos) : togglePublishStatus(u, id)

NextLike ==
    \/ ToggleVideoLikeStep
    \/ ToggleCommentLikeStep
    \/ ToggleTweetLikeStep
    \/ LikeFindOneStep
    \/ LikeWriteStep
    \/ TogglePublishStatusStep

SpecLike == InitLike /\ [][NextLike]_vars

\* ------------------------------------------------------------- SpecUpload
\* One account is registered; nothing has been uploaded.
InitUpload ==
    /\ users = [u \in {1} |-> Registered(u)]
    /\ NobodyLoggedIn
    /\ NoContent
    /\ NoToggles
    /\ NoUpload
    /\ NoRemoteFiles
    /\ NoChannels

NextUpload ==
    \/ RegisterRequest
    \/ UpdateAvatarRequest
    \/ UpdateCoverImageRequest
    \/ PublishRequest
    \/ UpdateVideoRequest
    \/ ControllerStep
    \/ Abort
    \/ AfterResponse
    \/ EndRequest

SpecUpload == InitUpload /\ [][NextUpload]_vars

\* ------------------------------------------------------------ SpecDelete
\* The deletions of videos, comments and tweets among comments and likes,
\* one request at a time: a request starts when no like toggle is between
\* its awaits.  Every caller is an account requireAuth has let through.
InitDelete == InitLike

OneAtATime == InFlight = {}

DeleteVideoStep ==
    /\ OneAtATime
    /\ \E u \in DOMAIN users, id \in PresentedIds(videos) : deleteVideo(u, id)
AddCommentStep ==
    /\ OneAtATime
    /\ \E u \in DOMAIN users, id \in PresentedIds(videos), content \in {"", "nice"} :
            addComment(u, id, content)
DeleteCommentStep ==
    /\ OneAtATime
    /\ \E u \in DOMAIN users, id \in PresentedIds(comments) : deleteComment(u, id)
DeleteTweetStep ==
    /\ OneAtATime
    /\ \E u \in DOMAIN users, id \in PresentedIds(tweets) : deleteTweet(u, id)
\* The toggles, on the items that exist.
LikeAVideoStep ==
    /\ OneAtATime
    /\ \E u \in DOMAIN users, id \in DOMAIN videos : toggleVideoLike(1, u, id)
LikeACommentStep ==
    /\ OneAtATime
    /\ \E u \in DOMAIN users, id \in DOMAIN comments : toggleCommentLike(1, u, id)
LikeATweetStep ==
    /\ OneAtATime
    /\ \E u \in DOMAIN users, id \in DOMAIN tweets : toggleTweetLike(1, u, id)

NextDelete ==
    \/ DeleteVideoStep
    \/ AddCommentStep
    \/ DeleteCommentStep
    \/ DeleteTweetStep
    \/ LikeAVideoStep
    \/ LikeACommentStep
    \/ LikeATweetStep
    \/ LikeFindOneStep
    \/ LikeWriteStep

SpecDelete == InitDelete /\ [][NextDelete]_vars

\* -------------------------------------------------------------- SpecView
\* The routes that show videos, with the ones that decide what they show:
\* the publish toggle, the like toggle and the playlists.  A caller of a
\* public route is an account or nobody; behind requireAuth it is an account.
InitView == InitLike

GetAllVideosStep ==
    \E caller \in Callers, given \in BOOLEAN, userId \in {NoId} \cup DOMAIN users :
        getAllVideos(caller, given, userId)
GetVideoByIdStep ==
    \E caller \in Callers, id \in PresentedIds(videos) : GetVideoByIdRoute(caller, id)
CreatePlaylistStep ==
    \E u \in DOMAIN users, name \in {"", "mix"}, isPublic \in BOOLEAN :
        createPlaylist(u, name, isPublic)
AddVideoToPlaylistStep ==
    \E u \in DOMAIN users, v \in PresentedIds(videos), p \in PresentedIds(playlists) :
        addVideoToPlaylist(u, v, p)
GetPlaylistVideosByIdStep ==
    \E u \in DOMAIN users, p \in PresentedIds(playlists) : getPlaylistVideosById(u, p)
GetLikedVideosStep == \E u \in DOMAIN users : getLikedVideos(u)
GetUserWatchHistoryStep == \E u \in DOMAIN users : getUserWatchHistory(u)

NextView ==
    \/ GetAllVideosStep
    \/ GetVideoByIdStep
    \/ CreatePlaylistStep
    \/ AddVideoToPlaylistStep
    \/ GetPlaylistVideosByIdStep
    \/ GetLikedVideosStep
    \/ GetUserWatchHistoryStep
    \/ TogglePublishStatusStep
    \/ LikeAVideoStep
    \/ LikeFindOneStep
    \/ LikeWriteStep

SpecView == InitView /\ [][NextView]_vars

\* --------------------------------------------------------------- SpecSub
\* The accounts toggle subscriptions, on as many connections as the server
\* has requests in flight.
InitSub == InitAuth

ToggleSubscriptionStep ==
    \E c \in Conns, u \in DOMAIN users, channelId \in ChannelIds : toggleSubscription(c, u, channelId)
SubFindOneStep == \E c \in Conns : SubFindOne(c)
SubWriteStep == \E c \in Conns : SubWrite(c)

NextSub ==
    \/ ToggleSubscriptionStep
    \/ SubFindOneStep
    \/ SubWriteStep

SpecSub == InitSub /\ [][NextSub]_vars

\* ------------------------------------------------------------ SpecAccount
\* Guests register and accounts rename themselves, on several connections at
\* once.
InitAccount == InitAuth

\* A password longer than bcrypt reads, and a second one that differs from it
\* in the last character only.
SeventyTwo == "0123456789abcdefghijklmnopqrstuvwxyz0123456789abcdefghijklmnopqrstuvwxyz"
LongPassword == SeventyTwo \o "a"
LongPasswordToo == SeventyTwo \o "b"

AccountPasswords == {"", "secret1", "secret2", LongPassword, LongPasswordToo}

RegisterStep ==
    \E c \in Conns,
       username \in {"", "alice", "ALICE", "newbie", "b-b", "bob"},
       email \in {"a@x.com", "n@x.com", "N@X.COM", "nope"},
       password \in {"secret1", "pw"} :
        RegisterFindOne(c, username, email, password)
RegisterCreateStep == \E c \in Conns : RegisterCreate(c)

UpdateAccountDetailsStep ==
    \E c \in Conns, u \in DOMAIN users, username \in {"", "newbie", "Newbie", "bobby", "b-b", "bob"} :
        UpdateAccountFindOne(c, u, username)
UpdateAccountSaveStep == \E c \in Conns : UpdateAccountSave(c)

ChangeCurrentPasswordStep ==
    \E u \in DOMAIN users, currentPassword \in AccountPasswords,
       newPassword \in {"", "pw", "secret2", LongPassword} :
        changeCurrentPassword(u, currentPassword, newPassword)

LoginGateStep ==
    \E req \in AccessReqs : Gate("requireGuest", "login", req, requireGuest(req))
AccountLoginStep == \E n \in LoginNames, p \in AccountPasswords : userLogin(n, p)

NextAccount ==
    \/ RegisterStep
    \/ RegisterCreateStep
    \/ UpdateAccountDetailsStep
    \/ UpdateAccountSaveStep

SpecAccount == InitAccount /\ [][NextAccount]_vars

\* ----------------------------------------------------------- SpecPassword
\* Accounts change their passwords and guests log in.
InitPassword == InitAuth

NextPassword ==
    \/ ChangeCurrentPasswordStep
    \/ LoginGateStep
    \/ AccountLoginStep

SpecPassword == InitPassword /\ [][NextPassword]_vars

\* ----------------------------------------------------------- SpecCascade
\* The first account, registered with a long password and an avatar, has
\* published a video, posted a tweet and made a playlist of the video; the
\* second has commented on the video and subscribed to the first.  Accounts
\* are deleted among likes and comments; a like or a comment starts when no
\* deletion is between its awaits, a deletion when no like toggle is.
InitCascade ==
    /\ users = [u \in Uids |->
                    IF u = 1
                    THEN [Registered(u) EXCEPT !.password = Hash(LongPassword), !.avatar = 3]
                    ELSE Registered(u)]
    /\ plain = [u \in Uids |-> IF u = 1 THEN LongPassword ELSE "secret1"]
    /\ NobodyLoggedIn
    /\ videos = [v \in {1} |-> [owner |-> 1, isPublished |-> TRUE, videoFile |-> 1, thumbnail |-> 2,
                               views |-> 0]]
    /\ comments = [c \in {1} |-> [owner |-> 2, video |-> 1]]
    /\ tweets = [t \in {1} |-> [owner |-> 1]]
    /\ likes = {}
    /\ nextCommentId = 2
    /\ NoToggles
    /\ NoUpload
    /\ playlists = [p \in {1} |-> [name |-> "mix", description |-> "", owner |-> 1, isPublic |-> TRUE, videos |-> <<1>>]]
    /\ subscriptions = {[id |-> 1, subscriber |-> 2, channel |-> 1]}
    /\ nextSubId = 2
    /\ sreq = [c \in Conns |-> IdleSub]
    /\ areq = [c \in Conns |-> IdleAccount]
    /\ remote = [f \in {1, 2, 3} |-> IF f = 1 THEN "video" ELSE "image"]
    /\ nextFileId = 4

CascadePasswords == {"", "secret1", "secret2", LongPassword, LongPasswordToo}

NoDeletionInFlight == \A c \in Conns : areq[c].pc = "idle"

DeleteAccountBeginStep ==
    /\ OneAtATime
    /\ \E c \in Conns, u \in DOMAIN users, password \in CascadePasswords :
            DeleteAccountBegin(c, u, password)
DeleteAccountAwaitStep == \E c \in Conns : DeleteAccountAwait(c)

NextCascade ==
    \/ DeleteAccountBeginStep
    \/ DeleteAccountAwaitStep
    \/ NoDeletionInFlight /\ AddCommentStep
    \/ NoDeletionInFlight /\ LikeAVideoStep
    \/ NoDeletionInFlight /\ LikeACommentStep
    \/ LikeFindOneStep
    \/ LikeWriteStep

SpecCascade == InitCascade /\ [][NextCascade]_vars

\* ----------------------------------------------------------- SpecRefresh
\* Guests log in and refresh their tokens, several refreshes at once; a login
\* starts when no refresh is between its awaits.
InitRefresh == InitAuth

NoRefreshInFlight == \A c \in Conns : areq[c].pc = "idle"

RefreshLoginGateStep == NoRefreshInFlight /\ LoginGateStep
RefreshFindByIdStep == \E c \in Conns, rreq \in RefreshReqs : RefreshFindById(c, rreq)
RefreshIssueStep == \E c \in Conns : RefreshIssue(c)

NextRefresh ==
    \/ RefreshLoginGateStep
    \/ LoginStep
    \/ RefreshFindByIdStep
    \/ RefreshIssueStep
    \/ Tick

SpecRefresh == InitRefresh /\ [][NextRefresh]_vars

\* ------------------------------------------------------------- SpecError
\* Handlers and middlewares throw, in either mode of the server.
InitError == InitAuth

HandlerThrowsStep ==
    \E handler \in Wrapped, error \in Thrown, nodeEnv \in NodeEnvs :
        HandlerThrows(handler, error, nodeEnv)
MiddlewareThrowsStep ==
    \E handler \in Unwrapped, error \in {e \in Thrown : ~e.apiError}, nodeEnv \in NodeEnvs :
        MiddlewareThrows(handler, error, nodeEnv)

NextError ==
    \/ HandlerThrowsStep
    \/ MiddlewareThrowsStep

SpecError == InitError /\ [][NextError]_vars

\* ---------------------------------------------------------- SpecPlaylist
\* The playlist routes behind requireAuth, two requests at a time: account
\* 1 has a published video and accounts 1 and 2 make, fill, edit and drop
\* playlists.  An ObjectId is never handed out twice: the model's id of a
\* dropped playlist is taken again only while no request still holds it.
InitPlaylist == InitLike

PlaylistNames == {Undefined, " ", " mix2 "}
PlaylistDescriptions == {Undefined, "songs"}
PlaylistFlags == {Undefined, "true", "false", "maybe"}

PlaylistCreateStep ==
    /\ \A c \in Conns : areq[c].pc = "idle"
    /\ \E u \in DOMAIN users, isPublic \in BOOLEAN : createPlaylist(u, "mix", isPublic)
UpdatePlaylistStep ==
    \E u \in DOMAIN users, p \in PresentedIds(playlists), name \in PlaylistNames,
       description \in PlaylistDescriptions, isPublic \in PlaylistFlags :
        updatePlaylist(u, p, name, description, isPublic)
DeletePlaylistStep ==
    \E u \in DOMAIN users, p \in PresentedIds(playlists) : deletePlaylist(u, p)
RemoveVideoFromPlaylistStep ==
    \E u \in DOMAIN users, v \in PresentedIds(videos), p \in PresentedIds(playlists) :
        removeVideoFromPlaylist(u, v, p)
AddVideoFindByIdStep ==
    \E c \in Conns, u \in DOMAIN users, v \in PresentedIds(videos),
       p \in PresentedIds(playlists) : AddVideoFindById(c, u, v, p)
AddVideoSaveStep == \E c \in Conns : AddVideoSave(c)

NextPlaylist ==
    \/ PlaylistCreateStep
    \/ UpdatePlaylistStep
    \/ DeletePlaylistStep
    \/ RemoveVideoFromPlaylistStep
    \/ AddVideoFindByIdStep
    \/ AddVideoSaveStep

SpecPlaylist == InitPlaylist /\ [][NextPlaylist]_vars

\* ----------------------------------------------------- properties, SpecAuth
\* C1: once another refresh token has been issued for an account after a
\* given one, refreshAccessToken presenting the earlier one answers 401 and
\* issues no token.
C1_SupersededRefreshTokenFails ==
    (last.handler = "refresh" /\ last.rtSuperseded)
        => (last.status = 401 /\ last.newRT = NoToken)

\* C2: refreshAccessToken presenting a refresh token issued before the
\* account's last logout, with no login of the account since, answers 401
\* and issues no token.
C2_LoggedOutRefreshTokenFails ==
    (last.handler = "refresh" /\ last.rtRevoked)
        => (last.status = 401 /\ last.newRT = NoToken)

\* A refresh token of a logged-out account is refused while every token ever
\* issued is still inside its lifetime.
C2_Witness ==
    /\ last.handler = "refresh"
    /\ last.rtRevoked
    /\ last.status = 401
    /\ now < RefreshTokenExpiry

\* C3: requireAuth answers 401 exactly when the access token the request
\* carries (the cookie, or without one the Authorization header) is not
\* valid; a rejected request reaches no controller; a passed one reaches its
\* route's controller with req.user the account the token names.
C3_RequireAuth ==
    last.handler = "requireAuth" =>
        /\ last.rejected <=> ~last.tokValid
        /\ last.rejected => (last.status = 401 /\ pending = NoPending)
        /\ ~last.rejected => pending = [route |-> last.route, user |-> last.tokUid]

\* An access token of a deleted account is turned away.
C3_Witness ==
    /\ last.handler = "requireAuth"
    /\ last.rejected
    /\ last.tokUid \in Uids \ DOMAIN users
    /\ <<last.tokUid, now>> \in issued

\* C4: requireGuest answers 409 exactly when the access token the request
\* carries is valid; every other request goes on to its route's controller.
C4_RequireGuest ==
    last.handler = "requireGuest" =>
        /\ last.rejected <=> last.tokValid
        /\ last.rejected => (last.status = 409 /\ pending = NoPending)
        /\ ~last.rejected => pending.route = last.route

\* A logged-in caller is kept away from a guest route.
C4_Witness ==
    /\ last.handler = "requireGuest"
    /\ last.rejected
    /\ last.status = 409
    /\ last.route = "refresh"

\* C21: refreshAccessToken answers 401 when the refresh token it reads is
\* missing, is not signed with the refresh secret, is expired, names no
\* account or is not the account's stored refresh token; no account's stored
\* refresh token changes then and no token is issued.
RefreshTokenRefusable(incoming) ==
    \/ incoming = NoToken
    \/ incoming.key # "refresh"
    \/ now >= incoming.iat + RefreshTokenExpiry
    \/ incoming.uid \notin DOMAIN users
    \/ users[incoming.uid].refreshToken # incoming

C21_RefreshFailures ==
    [][\A rreq \in RefreshReqs :
        (refreshAccessToken(rreq) /\ RefreshTokenRefusable(ReadRefreshToken(rreq)))
            => /\ last'.status = 401
               /\ last'.newRT = NoToken
               /\ \A u \in DOMAIN users : users'[u].refreshToken = users[u].refreshToken
               /\ DOMAIN users' = DOMAIN users
               /\ issued' = issued]_vars

\* A well-signed, unexpired refresh token of an existing account is refused
\* because the account stores another one.
C21_Witness ==
    /\ last.handler = "refresh"
    /\ last.status = 401
    /\ last.rtSuperseded
    /\ ~last.rtRevoked
    /\ now < RefreshTokenExpiry

\* C30: userLogout clears the caller's stored refresh token and changes
\* nothing else, in the caller's account or in any other record, and every
\* request requireAuth lets through before the logout it lets through after
\* it.
C30_LogoutFrame ==
    [][userLogout =>
        /\ users' = [users EXCEPT ![pending.user].refreshToken = NoToken]
        /\ UNCHANGED <<contentVars, playlists, subscriptions, remote>>
        /\ \A req \in AccessReqs :
                requireAuth(req).next => (requireAuth(req).next /\ requireAuth(req).user \in DOMAIN users)']_vars

\* requireAuth lets a request of a logged-out account through: its access
\* token was issued before the logout.
C30_Witness ==
    /\ last.handler = "requireAuth"
    /\ ~last.rejected
    /\ last.tokUid \in DOMAIN users
    /\ users[last.tokUid].refreshToken = NoToken
    /\ \E p \in revoked : p[1] = last.tokUid

\* ----------------------------------------------------- properties, SpecLike
\* C5: no two Like records have the same account and the same target.
C5_AtMostOneLikePerPair ==
    \A l, m \in likes :
        (l.likedBy = m.likedBy /\ l.video = m.video /\ l.comment = m.comment /\ l.tweet = m.tweet)
            => l = m

\* C6: after n toggles of one account on one target with no other request on
\* the pair interleaved, the pair's liked state is the one the first toggle
\* found when n is even and the opposite one when n is odd.
C6_ToggleParity ==
    run # NoRun =>
        (Liked(run.field, run.target, run.likedBy) = run.base) <=> (run.count % 2 = 0)

\* --------------------------------------------------- properties, SpecUpload
\* A remote file some record of the database points at.
Referenced(f) ==
    \/ \E u \in DOMAIN users : users[u].avatar = f \/ users[u].coverImage = f
    \/ \E v \in DOMAIN videos : videos[v].videoFile = f \/ videos[v].thumbnail = f

\* C7: when publishAVideo has transferred the video file and the thumbnail
\* and Video.create then fails, the response is 500, a delete was issued for
\* each of the two files before it went out, remote storage holds neither,
\* and no Video record was made for the request.
C7_PublishCompensates ==
    (up.pc = "responded" /\ up.op = "publishAVideo" /\ up.persist = "failed") =>
        /\ up.status = 500
        /\ Cardinality(up.transferred) = 2
        /\ up.transferred \subseteq up.destroyed
        /\ up.transferred \cap DOMAIN remote = {}
        /\ up.created = NoId
        /\ \A f \in up.transferred : ~Referenced(f)

\* Video.create failed after both transfers, on a request nobody aborted.
C7_Witness ==
    /\ up.pc = "responded"
    /\ up.op = "publishAVideo"
    /\ up.persist = "failed"
    /\ up.uploads = {"videoFile", "thumbnail"}
    /\ Cardinality(up.transferred) = 2
    /\ up.signals = {"send"}

\* C8: when an upload-carrying request is answered with an error, every file
\* it transferred that remote storage still holds is referenced by a record.
C8_NoOrphanAfterError ==
    (up.pc = "responded" /\ up.status >= 400) =>
        \A f \in up.transferred : f \in DOMAIN remote => Referenced(f)

C11_NonOwnerDeleteVideoRefused ==
    [][\A u \in DOMAIN users, v \in DOMAIN videos :
            (videos[v].owner # u /\ deleteVideo(u, v))
                => /\ last'.status \in {403, 404}
                   /\ videos' = videos
                   /\ remote' = remote]_vars

\* A non-owner has asked for the deletion of a video that exists and still
\* holds both files remotely.
C11_Witness ==
    /\ last.handler = "deleteVideo"
    /\ last.status = 404
    /\ last.caller \in DOMAIN users
    /\ last.target \in DOMAIN videos
    /\ videos[last.target].owner # last.caller
    /\ {videos[last.target].videoFile, videos[last.target].thumbnail} \subseteq DOMAIN remote

\* ------------------------------------------------------------------- C15
\* C15: between requests, every Comment references an existing video and
\* every Like references an existing video, comment or tweet: the deletions
\* take the comments and likes that hang on the deleted item with them, the
\* likes on the comments of a deleted video included.
LikeTargetExists(l) ==
    /\ l.video # NoId => l.video \in DOMAIN videos
    /\ l.comment # NoId => l.comment \in DOMAIN comments
    /\ l.tweet # NoId => l.tweet \in DOMAIN tweets

C15_NoDanglingReferences ==
    OneAtATime =>
        /\ \A c \in DOMAIN comments : comments[c].video \in DOMAIN videos
        /\ \A l \in likes : LikeTargetExists(l)

C28_RefusedDeleteVideoChangesNothing ==
    [][\A u \in DOMAIN users, v \in PresentedIds(videos) :
            (/\ deleteVideo(u, v)
             /\ isValidObjectId(v)
             /\ (v \notin DOMAIN videos \/ videos[v].owner # u))
                => /\ videos' = videos
                   /\ likes' = likes
                   /\ comments' = comments]_vars

\* ------------------------------------------------------------------- C12
\* C12: no response of getAllVideos, getVideoById, getPlaylistVideosById,
\* getLikedVideos or getUserWatchHistory carries an unpublished video to a
\* caller who is not its owner.
Readers ==
    {"getAllVideos", "getVideoById", "getPlaylistVideosById", "getLikedVideos",
     "getUserWatchHistory"}

C12_UnpublishedOnlyToOwner ==
    last.handler \in Readers =>
        \A v \in last.shown \cap DOMAIN videos :
            ~videos[v].isPublished => videos[v].owner = last.caller

\* ------------------------------------------------------------------- C13
\* C13: GET /videos/:videoId for a published video raises its view counter
\* by exactly 1 when an authenticated account other than the owner asks,
\* and leaves it as it is when the owner asks.
C13_ViewCounted ==
    [][\A u \in DOMAIN users, v \in DOMAIN videos :
            (videos[v].isPublished /\ GetVideoByIdRoute(u, v))
                => videos'[v].views =
                        IF videos[v].owner = u THEN videos[v].views ELSE videos[v].views + 1]_vars

\* ------------------------------------------------------------------- C14
\* C14: GET /videos/:videoId for an unpublished video answers 200 with the
\* video to its owner and 404 to every other caller.
C14_UnpublishedVideoById ==
    (/\ last.handler = "getVideoById"
     /\ last.target \in DOMAIN videos
     /\ ~videos[last.target].isPublished)
        => IF last.caller = videos[last.target].owner
           THEN last.status = 200 /\ last.shown = {last.target}
           ELSE last.status = 404 /\ last.shown = {}

\* ------------------------------------------------------------------- C17
\* C17: toggleSubscription on the caller's own account is answered 400, and
\* no Subscription document has its subscriber as its channel.
C17_NoSelfSubscription ==
    /\ \A s \in subscriptions : s.subscriber # s.channel
    /\ (last.handler = "toggleSubscription" /\ last.target = last.caller)
            => last.status = 400

\* ------------------------------------------------------------------- C18
\* C18: there is at most one Subscription document per (subscriber, channel)
\* pair, whatever requests run at once, and a request whose create finds the
\* pair's document already there is answered 409 and adds nothing.
C18_AtMostOneSubscriptionPerPair ==
    [][/\ \A s \in subscriptions', t \in subscriptions' :
            (s.subscriber = t.subscriber /\ s.channel = t.channel) => s.id = t.id
       /\ \A c \in Conns :
            (/\ SubWrite(c)
             /\ sreq[c].existingSubscription = NoId
             /\ SubscriptionsOf(sreq[c].subscriber, CastObjectId(sreq[c].channelId)) # {})
                => last'.status = 409 /\ subscriptions' = subscriptions]_vars

\* A request has lost the race: its create met the other request's document.
C18_Witness ==
    /\ last.handler = "toggleSubscription"
    /\ last.status = 409
    /\ SubscriptionsOf(last.caller, last.target) # {}

\* ------------------------------------------------------------------- C19
\* C19: no two accounts share a username or an email, and a registration
\* (of a document the schema accepts) or a rename whose write would give two
\* accounts one username or one email is answered 409 and leaves the
\* accounts as they were.
C19_UniqueNamesAndConflict ==
    [][/\ \A u \in DOMAIN users', v \in DOMAIN users' :
            u # v => /\ users'[u].username # users'[v].username
                     /\ users'[u].email # users'[v].email
       /\ \A c \in Conns :
            (/\ RegisterCreate(c)
             /\ Len(toLowerCase(areq[c].username)) >= 5
             /\ DuplicateKey(NoUser, toLowerCase(areq[c].username), toLowerCase(areq[c].email)))
                => last'.status = 409 /\ users' = users
       /\ \A c \in Conns :
            (/\ UpdateAccountSave(c)
             /\ DuplicateKey(areq[c].user, toLowerCase(areq[c].username),
                             users[areq[c].user].email))
                => last'.status = 409 /\ users' = users]_vars

\* ------------------------------------------------------------------- C20
\* C20: a login that names an existing account with a password is answered
\* 200 with tokens when the password is the one the account's password was
\* last set to, and 401 with the stored refresh token untouched when it is
\* any other.
C20_LoginIffCurrentPassword ==
    [][\A n \in LoginNames, p \in AccountPasswords \ {""} :
        (userLogin(n, p) /\ FindByUsernameOrEmail(n) # {})
            => \A u \in FindByUsernameOrEmail(n) :
                IF p = plain[u]
                THEN /\ last'.status = 200
                     /\ last'.newRT # NoToken
                     /\ users'[u].refreshToken = last'.newRT
                ELSE /\ last'.status = 401
                     /\ users'[u].refreshToken = users[u].refreshToken]_vars

\* ------------------------------------------------------------------- C22
\* C22: deleteUserAccount with no password, or with one that is not the
\* account's, is answered 400 or 401 and starts no deletion: no record and
\* no remote file goes.
C22_WrongPasswordDeletesNothing ==
    [][\A c \in Conns, u \in DOMAIN users,
          password \in CascadePasswords :
        (DeleteAccountBegin(c, u, password) /\ password # plain[u])
            => /\ last'.status \in {400, 401}
               /\ areq'[c] = IdleAccount]_vars

\* ------------------------------------------------------------------- C23
\* What is left of account `u` in the collections.
OwnedBy(u) ==
    [videos |-> {v \in DOMAIN videos : videos[v].owner = u},
     comments |-> {c \in DOMAIN comments : comments[c].owner = u},
     tweets |-> {t \in DOMAIN tweets : tweets[t].owner = u},
     playlists |-> {p \in DOMAIN playlists : playlists[p].owner = u},
     likes |-> {l \in likes : l.likedBy = u},
     subscriptions |-> {s \in subscriptions : s.subscriber = u \/ s.channel = u}]

NothingOwned ==
    [videos |-> {}, comments |-> {}, tweets |-> {}, playlists |-> {}, likes |-> {},
     subscriptions |-> {}]

\* C23: when deleteUserAccount has answered 200 and no other request is
\* between its awaits, the account is gone, nothing it owned, liked or
\* subscribed is left, and no like points at a video, comment or tweet that
\* went with it.
C23_CascadeComplete ==
    (/\ last.handler = "delete-account"
     /\ last.status = 200
     /\ OneAtATime
     /\ NoDeletionInFlight)
        => /\ last.caller \notin DOMAIN users
           /\ OwnedBy(last.caller) = NothingOwned
           /\ \A l \in likes : LikeTargetExists(l)

\* ------------------------------------------------------------------- C29
\* C29: an account's avatar and cover files leave remote storage only when
\* none of its records but the account itself is left, and where an account
\* is gone nothing it owned is left.
C29_CascadeOrder ==
    /\ \A u \in DOMAIN users :
        (\E f \in {users[u].avatar, users[u].coverImage} : f # NoFile /\ f \notin DOMAIN remote)
            => OwnedBy(u) = NothingOwned
    /\ \A u \in Uids \ DOMAIN users : OwnedBy(u) = NothingOwned

\* ------------------------------------------------------------------- C27
\* C27: a refresh token is redeemed at most once: when a refresh request
\* issues its tokens, the token it presented is still the account's stored
\* one (no other request has redeemed it in between), so the token a 200
\* returns replaces the one presented.
C27_RefreshTokenRedeemedOnce ==
    [][\A c \in Conns :
        RefreshIssue(c) => users[areq[c].user].refreshToken = areq[c].incoming]_vars

\* ------------------------------------------------------------------- C24
\* C24: in production an exception that is no ApiError is answered with
\* status 500 and a generic message; neither its message nor its stack is in
\* the response.
GenericMessages == {"Internal Server Error", "Internal Server Error."}

C24_ProductionHidesDetail ==
    (last.mode = "production" /\ ~last.apiError)
        => /\ last.status = 500
           /\ last.message \in GenericMessages
           /\ last.stack = ""

\* ------------------------------------------------- properties: playlists
\* A request that updatePlaylist's checks on its body let through: it names
\* at least one field, and the name and the flag it gives are acceptable.
UpdateBodyAccepted(name, description, isPublic) ==
    /\ Truthy(name) \/ Truthy(description) \/ isPublic # Undefined
    /\ Truthy(name) => Len(trim(name)) \in 1..MaxNameLen
    /\ Truthy(isPublic) => isPublic \in {"true", "false"}

\* What a request of account u on playlist p, which u does not own, may do:
\* nothing to any playlist, with the given status.
RefusedWith(status) == playlists' = playlists /\ last'.status = status

\* C25 as stated: updatePlaylist, deletePlaylist, addVideoToPlaylist and
\* removeVideoFromPlaylist called on an existing playlist by an account that
\* is not its owner never change the playlist, and updatePlaylist,
\* deletePlaylist and removeVideoFromPlaylist answer 403.
C25_NonOwnerGets403 ==
    [][\A u \in DOMAIN users, p \in DOMAIN playlists : playlists[p].owner # u =>
          /\ \A name \in PlaylistNames, description \in PlaylistDescriptions,
                isPublic \in PlaylistFlags :
                 updatePlaylist(u, p, name, description, isPublic) => RefusedWith(403)
          /\ deletePlaylist(u, p) => RefusedWith(403)
          /\ \A v \in PresentedIds(videos) :
                 removeVideoFromPlaylist(u, v, p) => RefusedWith(403)
          /\ \A c \in Conns, v \in PresentedIds(videos) :
                 AddVideoFindById(c, u, v, p) => playlists' = playlists /\ areq' = areq
      ]_vars

\* C25, amended: a request on an existing playlist by an account that is not
\* its owner never changes the playlist and never gets as far as a save;
\* updatePlaylist, deletePlaylist and removeVideoFromPlaylist answer 403 when
\* the request passes the handler's input validation and 400 when it does
\* not.
C25_NonOwnerNeverChanges ==
    [][/\ \A u \in DOMAIN users, p \in DOMAIN playlists : playlists[p].owner # u =>
            /\ \A name \in PlaylistNames, description \in PlaylistDescriptions,
                  isPublic \in PlaylistFlags :
                   updatePlaylist(u, p, name, description, isPublic) =>
                       RefusedWith(IF UpdateBodyAccepted(name, description, isPublic)
                                   THEN 403 ELSE 400)
            /\ deletePlaylist(u, p) => RefusedWith(403)
            /\ \A v \in PresentedIds(videos) :
                   removeVideoFromPlaylist(u, v, p) =>
                       RefusedWith(IF isValidObjectId(v) THEN 403 ELSE 400)
            /\ \A c \in Conns, v \in PresentedIds(videos) :
                   AddVideoFindById(c, u, v, p) => playlists' = playlists /\ areq' = areq
       /\ \A c \in Conns :
            AddVideoSave(c) /\ playlists' # playlists =>
                playlists[areq[c].playlistId].owner = areq[c].user
      ]_vars

\* An account that does not own the playlist has just been refused with 403
\* by updatePlaylist, and the playlist is there as it was.
C25_Witness ==
    /\ last.handler = "updatePlaylist"
    /\ last.status = 403
    /\ last.target \in DOMAIN playlists
    /\ playlists[last.target].owner # last.caller
    /\ Len(playlists[last.target].videos) > 0

\* C26: in every reachable state, concurrent addVideoToPlaylist requests
\* included, a playlist's video list holds no video id twice.
C26_NoVideoTwice ==
    \A p \in DOMAIN playlists :
        \A i, j \in 1..Len(playlists[p].videos) :
            playlists[p].videos[i] = playlists[p].videos[j] => i = j

=============================================================================
